---- MODULE Spec2Model ----
(***************************************************************************)
(* Demolish Dash: a room of networked clients plays a sequence of          *)
(* minigames.  The module models                                           *)
(*   - the room / game-session lifecycle driven by the clients' handlers   *)
(*     of App.tsx against the REST storage (specification SpecRoom),       *)
(*   - the relay server's handling of the per-session game_state blob      *)
(*     (specifications SpecBlob and SpecCommute),                          *)
(*   - the elimination / ranking convergence of the four minigame clients  *)
(*     over the relay (specification SpecGame).                            *)
(* Every await of an async handler is one step of the model.               *)
(***************************************************************************)
EXTENDS Integers, Sequences, FiniteSets, TLC

VARIABLES
    \* ---- storage rows (rooms, game_sessions, players) -------------------
    roomStatus,     \* rooms.status
    maxGames,       \* rooms.max_games
    sessions,       \* game_number -> [status, results]
    totalScore,     \* player -> players.total_score
    \* ---- one App component per client ------------------------------------
    appState,       \* client -> 'lobby' | 'playing' | 'scoreboard' | 'final'
    currentGame,    \* client -> game_number of currentGame, 0 for null
    hpc,            \* client -> position inside the running UI handler
    hloc,           \* client -> locals of the running UI handler
    ppc,            \* client -> position inside the lobby poll checkStatus
    ploc,           \* client -> locals of checkStatus
    polls,          \* client -> closures of the scoreboard games poll
    applied,        \* history: session -> player -> score PATCHes applied
    \* ---- relay server, game_state blob -----------------------------------
    blob,           \* game_sessions.game_state of the session
    relayOp,        \* the last relay operation on the blob, with its input
    relayPc,        \* in-flight read-modify-write handlers of the relay
    \* ---- two replicas of the relay fed the same updates in two orders ----
    runBlob,        \* run -> stored blob
    runQueue,       \* run -> game-state-update payloads still to process
    \* ---- the minigame clients of one game session ------------------------
    gameType,       \* game_sessions.game_type
    sessionId,      \* game_sessions.id, as char codes
    mounted,        \* client -> the minigame component is mounted
    connected,      \* client -> its socket is in the session's group
    loopOn,         \* client -> an animation frame is scheduled
    eliminatedPlayers, \* client -> GameState.eliminatedPlayers
    gameCompleted,  \* client -> GameState.gameCompleted
    bombHolderId,   \* client -> GameState.bombHolderId (0 for null)
    reports,        \* client -> the rankings passed to onGameComplete
    serverQueue,    \* game-state-update events the relay has not broadcast
    inbox,          \* client -> events emitted to its socket, in order
    published,      \* number of game-state-update events emitted so far
    \* ---- the lobby of one room: createRoom, joinRoom, the start button ----
    lobbyStatus,    \* rooms.status of the room ("none" before its INSERT)
    minPlayers,     \* rooms.min_players
    playerRows,     \* the players rows of the room, ORDER BY joined_at
    jpc,            \* client -> position inside createRoom / joinRoom
    randomColor,    \* client -> the ghost_color it is about to POST (0: none)
    playersState,   \* client -> length of the App's polled players state
    \* ---- one minigame component, whatever the length of its players prop --
    soloType,       \* game_type of the component
    soloPlayers,    \* its players prop
    soloPhase,      \* "props" | "returned" | "looping" | "framed" | "done"
    soloEliminated, \* GameState.eliminatedPlayers
    soloReports,    \* the rankings passed to onGameComplete
    \* ---- relay server, connections and groups ----------------------------
    socketState,    \* socket -> "idle" | "connected" | "disconnected"
    handshake,      \* socket -> the arguments of GameSocket.connect
    rooms,          \* socket -> the sessions whose group it is in
    socketToPlayer, \* the relay's map socket.id -> {gameSessionId, playerId}
    playerToSocket, \* the relay's map playerId -> socket.id
    updatesInFlight, \* player-state-update handlers before their emit
    storageHung,    \* those of them whose storage await never settles
    closing,        \* disconnect handlers before their map deletes
    received,       \* socket -> the events emitted to it, in order
    updatesSent,    \* number of player-state-update messages sent so far
    \* ---- the seeded selection of TagBomb, on two listings of one roster ---
    seedInput,      \* [id, a, b]: session id, the players prop of two clients
    seedOutput,     \* what the two clients computed (<<>> before)
    \* ---- TagBomb among three clients -----------------------------------
    bombSession,    \* gameSessionId, as char codes
    bombHolder,     \* client -> state.bombHolderId (0 is null)
    bombEliminated, \* client -> state.eliminatedPlayers
    bombCompleted,  \* client -> state.gameCompleted
    bombLoop,       \* client -> a frame of gameLoop is scheduled
    bombQueue,      \* game-state-update events on their way through the relay
    bombInbox,      \* client -> game-state-changed events not yet handled
    bombPublished,  \* number of game-state-update events emitted so far
    withBomb,       \* client -> the ghosts whose hasBomb is true on it
    bombSyncs,      \* number of player-state-changed events handled so far
    \* ---- one Ghost and its dash -----------------------------------------
    isDashing,      \* Ghost.isDashing
    dashCooldown,   \* Ghost.dashCooldown, in ms
    dashTimeout,    \* Ghost.dashTimeout: id of the last timer set (0: undefined)
    dashTimers,     \* ids of the timers that are set and have not fired
    dashCalls,      \* number of activateDash calls so far
    dashCleaned,    \* the effect's cleanup has run (listeners removed, frame
                    \* cancelled, Ghost.cleanup called)
    \* ---- handleStartGame of one client, run on its own -------------------
    hostInput,      \* [rows, polled, me, status, sessions] before the call
    hostOutput,     \* [status, sessions] after it (<<>> before)
    \* ---- the lobby status poll with failing fetches ----------------------
    pollRoom,           \* stored status of the room
    pollSession,        \* stored status of the room's first game session
    pollState,          \* client -> appState
    consecutiveErrors,  \* client -> consecutiveErrors of its lobby effect
    subscribed,         \* client -> the interval of subscribeToRoom is set
    pollPc,             \* client -> the await checkStatus is at
    pollFailures,       \* number of fetches that have failed so far
    \* ---- GameManager.completeGame, run on its own ------------------------
    scoreInput,     \* [results, scores, status, sessionFails, readFails, writeFails]
    scoreOutput     \* [returned, scores, status] after the call (<<>> before)

roomVars == <<roomStatus, maxGames, sessions, totalScore, appState, currentGame,
              hpc, hloc, ppc, ploc, polls, applied>>
blobVars == <<blob, relayOp, relayPc>>
runVars  == <<runBlob, runQueue>>
gameVars == <<gameType, sessionId, mounted, connected, loopOn, eliminatedPlayers,
              gameCompleted, bombHolderId, reports, serverQueue, inbox, published>>
joinVars == <<lobbyStatus, minPlayers, playerRows, jpc, randomColor, playersState>>
soloVars == <<soloType, soloPlayers, soloPhase, soloEliminated, soloReports>>
hubVars == <<socketState, handshake, rooms, socketToPlayer, playerToSocket,
             updatesInFlight, storageHung, closing, received, updatesSent>>
seedVars == <<seedInput, seedOutput>>
bombVars == <<bombSession, bombHolder, bombEliminated, bombCompleted, bombLoop,
              bombQueue, bombInbox, bombPublished, withBomb, bombSyncs>>
dashVars == <<isDashing, dashCooldown, dashTimeout, dashTimers, dashCalls, dashCleaned>>
hostVars == <<hostInput, hostOutput>>
pollVars == <<pollRoom, pollSession, pollState, consecutiveErrors, subscribed,
              pollPc, pollFailures>>
scoreVars == <<scoreInput, scoreOutput>>
vars == <<roomVars, blobVars, runVars, gameVars, joinVars, soloVars, hubVars, seedVars, bombVars, dashVars, hostVars, pollVars, scoreVars>>

----------------------------------------------------------------------------
(* Bounds of the model *)

MaxGames == 2        \* max_games of the room of SpecRoom

----------------------------------------------------------------------------
(* Generic helpers *)

Range(s) == {s[i] : i \in 1..Len(s)}

KeepOrder(s) == s
Reverse(s) == [i \in 1..Len(s) |-> s[Len(s) + 1 - i]]

RECURSIVE SumOver(_, _)
SumOver(S, f) ==
    IF S = {} THEN 0
    ELSE LET x == CHOOSE y \in S : TRUE IN f[x] + SumOver(S \ {x}, f)

\* All sequences without repetition over the set S, of length n
RECURSIVE Arrangements(_, _)
Arrangements(S, n) ==
    IF n = 0 THEN {<<>>}
    ELSE UNION {{Append(a, x) : x \in S \ Range(a)} : a \in Arrangements(S, n - 1)}

----------------------------------------------------------------------------
(* Ranking computation shared by the minigames *)

\* GameManager.calculatePoints
calculatePoints(rank, totalPlayers) == totalPlayers - rank + 1

\* results.sort((a, b) => a.rank - b.rank): a stable sort by rank
RECURSIVE SortByRank(_)
SortByRank(rs) ==
    IF Len(rs) <= 1 THEN rs
    ELSE LET sorted == SortByRank(SubSeq(rs, 1, Len(rs) - 1))
             x == rs[Len(rs)]
             before == SelectSeq(sorted, LAMBDA r : r.rank <= x.rank)
             after == SelectSeq(sorted, LAMBDA r : r.rank > x.rank)
         IN before \o <<x>> \o after

\* The final ranking every minigame builds once one player remains:
\* the winner, then the eliminated players in reverse elimination order,
\* then the roster players not yet listed, sorted by rank.
FinalRanking(players, eliminated) ==
    LET totalPlayers == Len(players)
        remainingPlayers == SelectSeq(players, LAMBDA p : p \notin Range(eliminated))
        winner == remainingPlayers[1]
        eliminatedInOrder == Reverse(eliminated)
        ranked == <<[player_id |-> winner, rank |-> 1, points |-> totalPlayers]>> \o
                  [i \in 1..Len(eliminatedInOrder) |->
                      [player_id |-> eliminatedInOrder[i], rank |-> i + 1,
                       points |-> calculatePoints(i + 1, totalPlayers)]]
        allPlayerIds == {ranked[i].player_id : i \in 1..Len(ranked)}
        missing == SelectSeq(players, LAMBDA p : p \notin allPlayerIds)
        fallback == [i \in 1..Len(missing) |->
                      [player_id |-> missing[i], rank |-> totalPlayers, points |-> 1]]
    IN SortByRank(ranked \o fallback)

\* players.length < 2: everybody present is ranked first with one point
DegenerateRanking(players) ==
    [i \in 1..Len(players) |-> [player_id |-> players[i], rank |-> 1, points |-> 1]]

\* Points a ranking gives to player p (0 when p is not in it)
PointsIn(results, p) ==
    SumOver({i \in 1..Len(results) : results[i].player_id = p},
            [i \in 1..Len(results) |-> results[i].points])

----------------------------------------------------------------------------
(* Room / game-session lifecycle: App.tsx, GameManager.ts, Room.ts and the   *)
(* REST endpoints of the server.                                             *)

\* GET /api/rooms/:roomId/players, ORDER BY joined_at ASC: two players, the
\* room's creator first; client c plays as player c
RoomPlayers == <<1, 2>>

Clients == Range(RoomPlayers)

GameNumbers == 1..maxGames

\* The ranking the minigame of session g hands to onGameComplete on every
\* client: the final ranking of an elimination order that differs from one
\* game to the next (the roster but its last player, rotated by g)
RoomRanking(g) ==
    LET n == Len(RoomPlayers)
        order == [i \in 1..(n - 1) |-> RoomPlayers[((i + g) % n) + 1]]
    IN FinalRanking(RoomPlayers, order)

IdleLoc == [game |-> 0, next |-> 0, results |-> <<>>, idx |-> 0, read |-> 0]

\* const isHost = players[0]?.id === currentPlayer.id
IsHost(c) == RoomPlayers[1] = c

\* GET /api/rooms/:roomId/game-sessions?status=..., ORDER BY game_number ASC
SessionsWithStatus(st) == {g \in GameNumbers : sessions[g].status = st}

LowestOf(S) == IF S = {} THEN 0 ELSE CHOOSE g \in S : \A h \in S : g <= h

\* GameManager.getNextGame: games[0] of the pending sessions, or null
getNextGame == LowestOf(SessionsWithStatus("pending"))

\* GameManager.getCurrentGame: games[0] of the active sessions, or null
getCurrentGame == LowestOf(SessionsWithStatus("active"))

\* GameManager.startGame: PATCH status 'active', whatever the stored status
startGame(g) == [sessions EXCEPT ![g].status = "active"]

\* the effect cleanup of the lobby poll sets isMounted = false when appState
\* leaves 'lobby'
isMounted(c) == appState[c] = "lobby"

otherVarsOfRoom == <<blobVars, runVars, gameVars, joinVars, soloVars, hubVars, seedVars, bombVars, dashVars, hostVars, pollVars, scoreVars>>

InitRoom ==
    /\ roomStatus = "waiting"
    /\ maxGames = MaxGames
    /\ sessions = [g \in 1..maxGames |-> [status |-> "pending", results |-> <<>>]]
    /\ totalScore = [p \in Clients |-> 0]
    /\ appState = [c \in Clients |-> "lobby"]
    /\ currentGame = [c \in Clients |-> 0]
    /\ hpc = [c \in Clients |-> "idle"]
    /\ hloc = [c \in Clients |-> IdleLoc]
    /\ ppc = [c \in Clients |-> "idle"]
    /\ ploc = [c \in Clients |-> 0]
    /\ polls = [c \in Clients |-> {}]
    /\ applied = [g \in 1..maxGames |-> [p \in Clients |-> 0]]

\* handleStartGame up to its first await: the host's "Iniciar Partida"
HandleStartGame(c) ==
    /\ appState[c] = "lobby" /\ hpc[c] = "idle"
    /\ IsHost(c)
    /\ roomStatus' = "playing"
    /\ hpc' = [hpc EXCEPT ![c] = "start_next"]
    /\ UNCHANGED <<maxGames, sessions, totalScore, appState, currentGame, hloc,
                   ppc, ploc, polls, applied>>

\* handleStartGame: const nextGame = await GameManager.getNextGame(room.id)
StartGetNext(c) ==
    /\ hpc[c] = "start_next"
    /\ IF getNextGame = 0
         THEN /\ hpc' = [hpc EXCEPT ![c] = "idle"]
              /\ hloc' = [hloc EXCEPT ![c] = IdleLoc]
         ELSE /\ hpc' = [hpc EXCEPT ![c] = "start_game"]
              /\ hloc' = [hloc EXCEPT ![c] = [IdleLoc EXCEPT !.next = getNextGame]]
    /\ UNCHANGED <<roomStatus, maxGames, sessions, totalScore, appState,
                   currentGame, ppc, ploc, polls, applied>>

\* handleStartGame: await startGame(nextGame.id); setCurrentGame; setAppState
StartGameStep(c) ==
    /\ hpc[c] = "start_game"
    /\ sessions' = startGame(hloc[c].next)
    /\ currentGame' = [currentGame EXCEPT ![c] = hloc[c].next]
    /\ appState' = [appState EXCEPT ![c] = "playing"]
    /\ hpc' = [hpc EXCEPT ![c] = "idle"]
    /\ hloc' = [hloc EXCEPT ![c] = IdleLoc]
    /\ UNCHANGED <<roomStatus, maxGames, totalScore, ppc, ploc, polls, applied>>

\* checkStatus of the lobby poll: the room is read and found 'playing'
CheckStatus(c) ==
    /\ appState[c] = "lobby" /\ ppc[c] = "idle"
    /\ roomStatus = "playing"
    /\ ppc' = [ppc EXCEPT ![c] = "cs_current"]
    /\ UNCHANGED <<roomStatus, maxGames, sessions, totalScore, appState,
                   currentGame, hpc, hloc, ploc, polls, applied>>

\* checkStatus: let activeGame = await GameManager.getCurrentGame(...)
CsCurrent(c) ==
    /\ ppc[c] = "cs_current"
    /\ IF getCurrentGame # 0
         THEN /\ ppc' = [ppc EXCEPT ![c] = "idle"]
              /\ IF isMounted(c)
                   THEN /\ currentGame' = [currentGame EXCEPT ![c] = getCurrentGame]
                        /\ appState' = [appState EXCEPT ![c] = "playing"]
                   ELSE UNCHANGED <<currentGame, appState>>
         ELSE /\ ppc' = [ppc EXCEPT ![c] = "cs_next"]
              /\ UNCHANGED <<currentGame, appState>>
    /\ UNCHANGED <<roomStatus, maxGames, sessions, totalScore, hpc, hloc, ploc,
                   polls, applied>>

\* checkStatus: activeGame = await GameManager.getNextGame(...)
CsNext(c) ==
    /\ ppc[c] = "cs_next"
    /\ IF getNextGame = 0
         THEN /\ ppc' = [ppc EXCEPT ![c] = "idle"]
              /\ ploc' = [ploc EXCEPT ![c] = 0]
         ELSE /\ ppc' = [ppc EXCEPT ![c] = "cs_start"]
              /\ ploc' = [ploc EXCEPT ![c] = getNextGame]
    /\ UNCHANGED <<roomStatus, maxGames, sessions, totalScore, appState,
                   currentGame, hpc, hloc, polls, applied>>

\* checkStatus: await GameManager.startGame(activeGame.id), then the switch
\* to 'playing' if the lobby is still mounted
CsStart(c) ==
    /\ ppc[c] = "cs_start"
    /\ sessions' = startGame(ploc[c])
    /\ IF isMounted(c)
         THEN /\ currentGame' = [currentGame EXCEPT ![c] = ploc[c]]
              /\ appState' = [appState EXCEPT ![c] = "playing"]
         ELSE UNCHANGED <<currentGame, appState>>
    /\ ppc' = [ppc EXCEPT ![c] = "idle"]
    /\ ploc' = [ploc EXCEPT ![c] = 0]
    /\ UNCHANGED <<roomStatus, maxGames, totalScore, hpc, hloc, polls, applied>>

\* The mounted minigame calls onGameComplete(results): handleGameComplete up to
\* completeGame's PATCH of the session (status 'completed', results)
GameComplete(c) ==
    /\ appState[c] = "playing" /\ hpc[c] = "idle"
    /\ currentGame[c] # 0
    /\ LET results == RoomRanking(currentGame[c]) IN
       /\ sessions' = [sessions EXCEPT ![currentGame[c]] =
                          [status |-> "completed", results |-> results]]
       /\ hloc' = [hloc EXCEPT ![c] = [IdleLoc EXCEPT !.game = currentGame[c],
                                                      !.results = results,
                                                      !.idx = 1]]
    /\ hpc' = [hpc EXCEPT ![c] = "gc_read"]
    /\ UNCHANGED <<roomStatus, maxGames, totalScore, appState, currentGame,
                   ppc, ploc, polls, applied>>

\* completeGame: const player = await api.players.getById(result.player_id)
GcRead(c) ==
    /\ hpc[c] = "gc_read"
    /\ hloc' = [hloc EXCEPT ![c].read = totalScore[hloc[c].results[hloc[c].idx].player_id]]
    /\ hpc' = [hpc EXCEPT ![c] = "gc_write"]
    /\ UNCHANGED <<roomStatus, maxGames, sessions, totalScore, appState,
                   currentGame, ppc, ploc, polls, applied>>

\* completeGame: await api.players.update(id, {total_score: player.total_score
\* + result.points}), then the next result
GcWrite(c) ==
    /\ hpc[c] = "gc_write"
    /\ LET r == hloc[c].results[hloc[c].idx]
       IN /\ totalScore' = [totalScore EXCEPT ![r.player_id] = hloc[c].read + r.points]
          /\ applied' = [applied EXCEPT ![hloc[c].game][r.player_id] = @ + 1]
    /\ IF hloc[c].idx < Len(hloc[c].results)
         THEN /\ hloc' = [hloc EXCEPT ![c].idx = @ + 1, ![c].read = 0]
              /\ hpc' = [hpc EXCEPT ![c] = "gc_read"]
         ELSE /\ hloc' = [hloc EXCEPT ![c].idx = 0, ![c].read = 0]
              /\ hpc' = [hpc EXCEPT ![c] = "gc_games"]
    /\ UNCHANGED <<roomStatus, maxGames, sessions, appState, currentGame,
                   ppc, ploc, polls>>

\* handleGameComplete: allGames = await getAllGames(...); either the switch to
\* 'scoreboard' (which subscribes the games poll) or on to the room update
GcGames(c) ==
    /\ hpc[c] = "gc_games"
    /\ IF Cardinality(SessionsWithStatus("completed")) >= maxGames
         THEN /\ hpc' = [hpc EXCEPT ![c] = "gc_finish"]
              /\ UNCHANGED <<appState, polls, hloc>>
         ELSE /\ hpc' = [hpc EXCEPT ![c] = "idle"]
              /\ hloc' = [hloc EXCEPT ![c] = IdleLoc]
              /\ appState' = [appState EXCEPT ![c] = "scoreboard"]
              /\ polls' = [polls EXCEPT ![c] = @ \cup {currentGame[c]}]
    /\ UNCHANGED <<roomStatus, maxGames, sessions, totalScore, currentGame,
                   ppc, ploc, applied>>

\* handleGameComplete: await updateRoomStatus(room.id, 'finished')
GcFinish(c) ==
    /\ hpc[c] = "gc_finish"
    /\ roomStatus' = "finished"
    /\ appState' = [appState EXCEPT ![c] = "final"]
    /\ hpc' = [hpc EXCEPT ![c] = "idle"]
    /\ hloc' = [hloc EXCEPT ![c] = IdleLoc]
    /\ UNCHANGED <<maxGames, sessions, totalScore, currentGame, ppc, ploc,
                   polls, applied>>

\* handleContinueToNextGame: nextGame = await getNextGame(room.id), found
HandleContinueToNextGame(c) ==
    /\ appState[c] = "scoreboard" /\ hpc[c] = "idle"
    /\ getNextGame # 0
    /\ hloc' = [hloc EXCEPT ![c] = [IdleLoc EXCEPT !.next = getNextGame]]
    /\ hpc' = [hpc EXCEPT ![c] = "continue_game"]
    /\ UNCHANGED <<roomStatus, maxGames, sessions, totalScore, appState,
                   currentGame, ppc, ploc, polls, applied>>

\* handleContinueToNextGame: await startGame(nextGame.id); setCurrentGame;
\* setAppState('playing')
ContinueStart(c) ==
    /\ hpc[c] = "continue_game"
    /\ sessions' = startGame(hloc[c].next)
    /\ currentGame' = [currentGame EXCEPT ![c] = hloc[c].next]
    /\ appState' = [appState EXCEPT ![c] = "playing"]
    /\ hpc' = [hpc EXCEPT ![c] = "idle"]
    /\ hloc' = [hloc EXCEPT ![c] = IdleLoc]
    /\ UNCHANGED <<roomStatus, maxGames, totalScore, ppc, ploc, polls, applied>>

\* The games poll subscribed on the scoreboard whose closure holds game k as
\* currentGame: an active game other than k is adopted
ScoreboardPoll(c, k) ==
    /\ k \in polls[c]
    /\ getCurrentGame # 0 /\ getCurrentGame # k
    /\ currentGame[c] # getCurrentGame \/ appState[c] # "playing"
    /\ currentGame' = [currentGame EXCEPT ![c] = getCurrentGame]
    /\ appState' = [appState EXCEPT ![c] = "playing"]
    /\ UNCHANGED <<roomStatus, maxGames, sessions, totalScore, hpc, hloc, ppc,
                   ploc, polls, applied>>

NextRoom ==
    \E c \in Clients :
        \/ HandleStartGame(c) /\ UNCHANGED otherVarsOfRoom
        \/ StartGetNext(c) /\ UNCHANGED otherVarsOfRoom
        \/ StartGameStep(c) /\ UNCHANGED otherVarsOfRoom
        \/ CheckStatus(c) /\ UNCHANGED otherVarsOfRoom
        \/ CsCurrent(c) /\ UNCHANGED otherVarsOfRoom
        \/ CsNext(c) /\ UNCHANGED otherVarsOfRoom
        \/ CsStart(c) /\ UNCHANGED otherVarsOfRoom
        \/ GameComplete(c) /\ UNCHANGED otherVarsOfRoom
        \/ GcRead(c) /\ UNCHANGED otherVarsOfRoom
        \/ GcWrite(c) /\ UNCHANGED otherVarsOfRoom
        \/ GcGames(c) /\ UNCHANGED otherVarsOfRoom
        \/ GcFinish(c) /\ UNCHANGED otherVarsOfRoom
        \/ HandleContinueToNextGame(c) /\ UNCHANGED otherVarsOfRoom
        \/ ContinueStart(c) /\ UNCHANGED otherVarsOfRoom
        \/ (\E k \in polls[c] : ScoreboardPoll(c, k)) /\ UNCHANGED otherVarsOfRoom

----------------------------------------------------------------------------
(* Relay server: the game_state blob of one game session                     *)

\* Keys the minigame clients publish in a game-state-update
PublishedKeys == {"eliminated_players", "bomb_holder_id"}

MaxVal == 2          \* distinct values a published key takes
MaxInFlight == 1     \* relay handlers between their SELECT and their UPDATE

\* A JSON object: a function from a finite set of keys
JsonObjects(keys, values) == UNION {[ks -> values] : ks \in SUBSET keys}

\* The gameState payloads of game-state-update: at least one key
Partials == JsonObjects(PublishedKeys, 1..MaxVal) \ {<<>>}

RelayPlayers == {1, 2}

HasKey(obj, k) == k \in DOMAIN obj

\* obj with obj[k] = v, the key added if absent
SetKey(obj, k, v) ==
    [x \in DOMAIN obj \cup {k} |-> IF x = k THEN v ELSE obj[x]]

\* socket.on('game-state-update'): UPDATE game_sessions SET game_state =
\* $1::jsonb, with $1 = JSON.stringify(gameState); the row's previous blob is
\* not read
gameStateUpdate(stored, gameState) == gameState

\* socket.on('player-state-update'): the blob read by the SELECT with
\* players[playerId] set
playerStateUpdate(read, playerId, position) ==
    LET gameState == IF HasKey(read, "players") THEN read
                     ELSE SetKey(read, "players", <<>>)
    IN SetKey(gameState, "players", SetKey(gameState["players"], playerId, position))

\* socket.on('disconnect'): the blob read by the SELECT with playerId pushed
\* to disconnected_players unless included
disconnectUpdate(read, playerId) ==
    LET gameState == IF HasKey(read, "disconnected_players") THEN read
                     ELSE SetKey(read, "disconnected_players", <<>>)
        list == gameState["disconnected_players"]
    IN IF playerId \in Range(list) THEN gameState
       ELSE SetKey(gameState, "disconnected_players", Append(list, playerId))

otherVarsOfBlob == <<roomVars, runVars, gameVars, joinVars, soloVars, hubVars, seedVars, bombVars, dashVars, hostVars, pollVars, scoreVars>>

NoOp == [op |-> "none"]

InitBlob ==
    /\ blob = <<>>           \* game_state jsonb DEFAULT '{}'
    /\ relayOp = NoOp
    /\ relayPc = {}

\* game-state-update: one UPDATE statement
GameStateUpdate(gameState) ==
    /\ blob' = gameStateUpdate(blob, gameState)
    /\ relayOp' = [op |-> "game-state-update", prev |-> blob, partial |-> gameState]
    /\ UNCHANGED relayPc

\* player-state-update: the SELECT
PlayerStateRead(playerId, position) ==
    /\ Cardinality(relayPc) < MaxInFlight
    /\ relayPc' = relayPc \cup
           {[kind |-> "player-state", playerId |-> playerId,
             position |-> position, read |-> blob]}
    /\ relayOp' = NoOp
    /\ UNCHANGED blob

\* disconnect of the socket that joined as playerId: the SELECT
DisconnectRead(playerId) ==
    /\ Cardinality(relayPc) < MaxInFlight
    /\ relayPc' = relayPc \cup
           {[kind |-> "disconnect", playerId |-> playerId, position |-> 0,
             read |-> blob]}
    /\ relayOp' = NoOp
    /\ UNCHANGED blob

\* the UPDATE that ends a player-state-update or a disconnect handler
RelayWrite(h) ==
    /\ h \in relayPc
    /\ blob' = IF h.kind = "player-state"
                 THEN playerStateUpdate(h.read, h.playerId, h.position)
                 ELSE disconnectUpdate(h.read, h.playerId)
    /\ relayPc' = relayPc \ {h}
    /\ relayOp' = NoOp

NextBlob ==
    \/ (\E gameState \in Partials : GameStateUpdate(gameState))
          /\ UNCHANGED otherVarsOfBlob
    \/ (\E p \in RelayPlayers : PlayerStateRead(p, 1))
          /\ UNCHANGED otherVarsOfBlob
    \/ (\E p \in RelayPlayers : DisconnectRead(p)) /\ UNCHANGED otherVarsOfBlob
    \/ (\E h \in relayPc : RelayWrite(h)) /\ UNCHANGED otherVarsOfBlob

----------------------------------------------------------------------------
(* Two replicas of the relay's storage, started from the same blob and fed  *)
(* the same two game-state-update payloads, in the two possible orders       *)

Runs == {1, 2}

otherVarsOfRun == <<roomVars, blobVars, gameVars, joinVars, soloVars, hubVars, seedVars, bombVars, dashVars, hostVars, pollVars, scoreVars>>

InitCommute ==
    \E b0 \in JsonObjects(PublishedKeys, 1..MaxVal) :
    \E u1 \in Partials, u2 \in Partials :
        /\ DOMAIN u1 \cap DOMAIN u2 = {}
        /\ runBlob = [r \in Runs |-> b0]
        /\ runQueue = [r \in Runs |-> IF r = 1 THEN <<u1, u2>> ELSE <<u2, u1>>]

\* the replica's relay processes its next game-state-update
ProcessUpdate(r) ==
    /\ runQueue[r] # <<>>
    /\ runBlob' = [runBlob EXCEPT ![r] = gameStateUpdate(@, Head(runQueue[r]))]
    /\ runQueue' = [runQueue EXCEPT ![r] = Tail(@)]

NextCommute == \E r \in Runs : ProcessUpdate(r) /\ UNCHANGED otherVarsOfRun

----------------------------------------------------------------------------
(* The minigame clients of one game session and the relay between them      *)

MaxPublishes == 4    \* game-state-update events emitted in one run
MaxHits == 2         \* boulders that touch one ghost in the same frame

\* The players prop of the session, in join order (ids compare as numbers)
GameRoster == <<2, 1>>

GamePlayers == Range(GameRoster)

\* Every player's client takes part in the session, client c as player c
GameClients == GamePlayers

GameTypes == {"tag_bomb", "platform_push", "falling_tiles", "boulder_run"}

\* game session ids, as char codes: "9b1deb4d", "1c6f2a0e"
SessionIds == {<<57, 98, 49, 100, 101, 98, 52, 100>>,
               <<49, 99, 54, 102, 50, 97, 48, 101>>}

Half == 65536        \* 2^16: a 32-bit integer is kept as two 16-bit halves

\* one round of simpleHash on the 32-bit pattern h:
\* hash = ((hash << 5) - hash) + char; hash = hash & hash
HashStep(h, char) ==
    LET lo == 31 * h.lo + char
        hi == 31 * h.hi + (lo \div Half)
    IN [hi |-> hi % Half, lo |-> lo % Half]

RECURSIVE HashBits(_)
HashBits(str) ==
    IF str = <<>> THEN [hi |-> 0, lo |-> 0]
    ELSE HashStep(HashBits(SubSeq(str, 1, Len(str) - 1)), str[Len(str)])

\* Math.abs of the signed 32-bit integer with bit pattern h
AbsBits(h) ==
    IF h.hi < Half \div 2 THEN h
    ELSE IF h.lo = 0 THEN [hi |-> Half - h.hi, lo |-> 0]
    ELSE [hi |-> Half - 1 - h.hi, lo |-> Half - h.lo]

\* simpleHash(str) % n
simpleHashMod(str, n) ==
    LET a == AbsBits(HashBits(str))
    IN ((a.hi % n) * (Half % n) + a.lo) % n

\* Number.prototype.toString of a natural number, as char codes
RECURSIVE ToChars(_)
ToChars(n) ==
    IF n < 10 THEN <<48 + n>> ELSE Append(ToChars(n \div 10), 48 + (n % 10))

\* [...].sort((a, b) => a.id.localeCompare(b.id))
RECURSIVE SortById(_)
SortById(ids) ==
    IF ids = {} THEN <<>>
    ELSE LET m == CHOOSE x \in ids : \A y \in ids : x <= y
         IN <<m>> \o SortById(ids \ {m})

\* the ghosts (in Map insertion order) that are not in the elimination list
Remaining(list) == SelectSeq(GameRoster, LAMBDA p : p \notin Range(list))

\* TagBomb: the first bomb holder
initialBombHolderId(id) ==
    LET sortedPlayerIds == SortById(GamePlayers)
    IN sortedPlayerIds[simpleHashMod(id, Len(sortedPlayerIds)) + 1]

\* TagBomb: the bomb holder chosen after an elimination
newBombHolder(id, list) ==
    LET sortedRemaining == SortById(Range(Remaining(list)))
        seed == id \o ToChars(Len(list))
    IN sortedRemaining[simpleHashMod(seed, Len(sortedRemaining)) + 1]

otherVarsOfGame == <<roomVars, blobVars, runVars, joinVars, soloVars, hubVars, seedVars, bombVars, dashVars, hostVars, pollVars, scoreVars>>

InitGame ==
    /\ gameType \in GameTypes
    /\ sessionId \in SessionIds
    /\ mounted = [c \in GameClients |-> TRUE]
    /\ connected = [c \in GameClients |-> TRUE]
    /\ loopOn = [c \in GameClients |-> TRUE]
    /\ eliminatedPlayers = [c \in GameClients |-> <<>>]
    /\ gameCompleted = [c \in GameClients |-> FALSE]
    /\ bombHolderId = [c \in GameClients |->
                          IF gameType = "tag_bomb" THEN initialBombHolderId(sessionId)
                          ELSE 0]
    /\ reports = [c \in GameClients |-> <<>>]
    /\ serverQueue = {}
    /\ inbox = [c \in GameClients |-> <<>>]
    /\ published = 0

\* The part of a client's GameState that a loop tick or a socket handler
\* works on, with the game-state-update payloads it emits (pubs) and the
\* rankings it passes to onGameComplete (reps)
ClientState(c) ==
    [list |-> eliminatedPlayers[c], completed |-> gameCompleted[c],
     loop |-> loopOn[c], holder |-> bombHolderId[c], pubs |-> <<>>, reps |-> <<>>]

EliminatedMsg(list) == [eliminated_players |-> list]

CompletionMsg(list, results) ==
    [eliminated_players |-> list, game_completed |-> TRUE, results |-> results]

\* state.eliminatedPlayers.push(id); updateGameState({eliminated_players})
PushAndPublish(st, id) ==
    [st EXCEPT !.list = Append(@, id),
               !.pubs = Append(@, EliminatedMsg(Append(st.list, id)))]

\* The block every minigame runs when one player remains and the game is not
\* completed: build the ranking, publish the completion (where the call site
\* does), call onGameComplete.  cancelled tells whether the
\* cancelAnimationFrame of the call site leaves no frame scheduled.
Complete(st, publish, cancelled) ==
    LET results == FinalRanking(GameRoster, st.list)
    IN [st EXCEPT !.completed = TRUE,
                  !.loop = IF cancelled THEN FALSE ELSE @,
                  !.pubs = IF publish THEN Append(@, CompletionMsg(st.list, results))
                           ELSE @,
                  !.reps = Append(@, results)]

OneRemains(st) == Len(Remaining(st.list)) = 1 /\ ~st.completed

\* TagBomb gameLoop, the frame in which the bomb timer has run out
TagBombExpiry(st, id) ==
    LET pushed == [st EXCEPT !.list = Append(@, st.holder),
                             !.pubs = Append(@, [eliminated_players |-> Append(st.list, st.holder),
                                                 bomb_holder_id |-> 0])]
    IN IF OneRemains(pushed) THEN Complete(pushed, TRUE, TRUE)
       ELSE IF Len(Remaining(pushed.list)) > 0
            THEN [pushed EXCEPT !.holder = newBombHolder(id, pushed.list)]
       ELSE pushed

\* PlatformPush gameLoop, the frame in which the ghosts of out are out of
\* bounds: state.ghosts.forEach from ghost i on.  The return after
\* onGameComplete leaves the forEach callback only, and the frame is
\* requested again at the end of the loop.
RECURSIVE PlatformPushFrame(_, _, _)
PlatformPushFrame(st, out, i) ==
    IF i > Len(GameRoster) THEN st
    ELSE LET ghost == GameRoster[i]
             pushed == PushAndPublish(st, ghost)
             next == IF ghost \in out /\ ghost \notin Range(st.list)
                       THEN IF OneRemains(pushed) THEN Complete(pushed, TRUE, FALSE)
                            ELSE pushed
                       ELSE st
         IN PlatformPushFrame(next, out, i + 1)

\* FallingTiles checkTileCollisions: the ghosts standing on fallen tiles, in
\* the order the tile loop meets them
RECURSIVE checkTileCollisions(_, _)
checkTileCollisions(st, fallen) ==
    IF fallen = <<>> THEN st
    ELSE checkTileCollisions(
             IF Head(fallen) \in Range(st.list) THEN st
             ELSE PushAndPublish(st, Head(fallen)),
             Tail(fallen))

\* FallingTiles gameLoop: collisions, then the completion check
FallingTilesFrame(st, fallen) ==
    LET after == checkTileCollisions(st, fallen)
    IN IF Len(after.list) > 0 /\ OneRemains(after) THEN Complete(after, TRUE, TRUE)
       ELSE after

\* BoulderRun: for (const b of state.boulders), n boulders touching the ghost
RECURSIVE BoulderHits(_, _, _)
BoulderHits(st, ghost, n) ==
    IF n = 0 THEN st ELSE BoulderHits(PushAndPublish(st, ghost), ghost, n - 1)

\* BoulderRun: state.ghosts.forEach over the collisions, from ghost i on
RECURSIVE BoulderCollisions(_, _, _)
BoulderCollisions(st, hits, i) ==
    IF i > Len(GameRoster) THEN st
    ELSE LET ghost == GameRoster[i]
         IN BoulderCollisions(
                IF ghost \in Range(st.list) THEN st
                ELSE BoulderHits(st, ghost, hits[ghost]),
                hits, i + 1)

\* BoulderRun loop: collisions, then the completion check
BoulderRunFrame(st, hits) ==
    LET after == BoulderCollisions(st, hits, 1)
    IN IF OneRemains(after) THEN Complete(after, TRUE, TRUE) ELSE after

\* TagBomb handleGameStateChange
TagBombGameStateChange(st, gameState) ==
    LET synced == IF HasKey(gameState, "bomb_holder_id")
                    THEN [st EXCEPT !.holder = gameState["bomb_holder_id"]]
                    ELSE st
        replaced == [synced EXCEPT !.list = gameState["eliminated_players"]]
    IN IF ~HasKey(gameState, "eliminated_players") THEN synced
       ELSE IF OneRemains(replaced) /\ HasKey(gameState, "game_completed")
            THEN IF HasKey(gameState, "results")
                   THEN [replaced EXCEPT !.completed = TRUE, !.loop = FALSE,
                                         !.reps = Append(@, gameState["results"])]
                   ELSE [replaced EXCEPT !.completed = TRUE]
       ELSE replaced

\* PlatformPush and FallingTiles handleGameStateChange
AdoptOrCompute(st, gameState) ==
    LET replaced == [st EXCEPT !.list = gameState["eliminated_players"]]
    IN IF ~HasKey(gameState, "eliminated_players") THEN st
       ELSE IF HasKey(gameState, "game_completed") /\ HasKey(gameState, "results")
               /\ ~replaced.completed
            THEN [replaced EXCEPT !.completed = TRUE, !.loop = FALSE,
                                  !.reps = Append(@, gameState["results"])]
       ELSE IF OneRemains(replaced) THEN Complete(replaced, TRUE, TRUE)
       ELSE replaced

\* BoulderRun onGameChange
onGameChange(st, data) ==
    IF HasKey(data, "eliminated_players")
    THEN [st EXCEPT !.list = data["eliminated_players"]]
    ELSE st

handleGameStateChange(st, gameState) ==
    CASE gameType = "tag_bomb" -> TagBombGameStateChange(st, gameState)
      [] gameType = "boulder_run" -> onGameChange(st, gameState)
      [] OTHER -> AdoptOrCompute(st, gameState)

\* handlePlayerDisconnected of client c; TagBomb publishes the completion,
\* PlatformPush and FallingTiles do not, BoulderRun registers no handler
handlePlayerDisconnected(c, st, playerId) ==
    LET pushed == PushAndPublish(st, playerId)
    IN IF gameType = "boulder_run" \/ playerId = c \/ playerId \in Range(st.list)
       THEN st
       ELSE IF OneRemains(pushed) THEN Complete(pushed, gameType = "tag_bomb", TRUE)
       ELSE pushed

\* Client c ends a frame or a handler in state st: its emits reach the relay
Apply(c, st) ==
    /\ published + Len(st.pubs) <= MaxPublishes
    /\ eliminatedPlayers' = [eliminatedPlayers EXCEPT ![c] = st.list]
    /\ gameCompleted' = [gameCompleted EXCEPT ![c] = st.completed]
    /\ loopOn' = [loopOn EXCEPT ![c] = st.loop]
    /\ bombHolderId' = [bombHolderId EXCEPT ![c] = st.holder]
    /\ reports' = [reports EXCEPT ![c] = @ \o st.reps]
    /\ serverQueue' = serverQueue \cup
           {[n |-> published + i, gameState |-> st.pubs[i]] : i \in 1..Len(st.pubs)}
    /\ published' = published + Len(st.pubs)
    /\ UNCHANGED <<gameType, sessionId, mounted, connected>>

Looping(c) == mounted[c] /\ loopOn[c]

\* TagBomb gameLoop: the bomb holder is within reach of closestGhost
TagBombPass(c, closestGhost) ==
    /\ gameType = "tag_bomb" /\ Looping(c)
    /\ bombHolderId[c] # 0
    /\ bombHolderId[c] \notin Range(eliminatedPlayers[c])
    /\ closestGhost # bombHolderId[c]
    /\ closestGhost \notin Range(eliminatedPlayers[c])
    /\ Apply(c, [ClientState(c) EXCEPT !.holder = closestGhost,
                                       !.pubs = <<[bomb_holder_id |-> closestGhost]>>])
    /\ UNCHANGED inbox

\* TagBomb gameLoop: state.bombTimer <= 0 && state.bombHolderId
TagBombTimer(c) ==
    /\ gameType = "tag_bomb" /\ Looping(c)
    /\ bombHolderId[c] # 0
    /\ Apply(c, TagBombExpiry(ClientState(c), sessionId))
    /\ UNCHANGED inbox

PlatformPushTick(c, out) ==
    /\ gameType = "platform_push" /\ Looping(c)
    /\ LET st == PlatformPushFrame(ClientState(c), out, 1)
       IN st # ClientState(c) /\ Apply(c, st)
    /\ UNCHANGED inbox

FallingTilesTick(c, fallen) ==
    /\ gameType = "falling_tiles" /\ Looping(c)
    /\ LET st == FallingTilesFrame(ClientState(c), fallen)
       IN st # ClientState(c) /\ Apply(c, st)
    /\ UNCHANGED inbox

BoulderRunTick(c, hits) ==
    /\ gameType = "boulder_run" /\ Looping(c)
    /\ LET st == BoulderRunFrame(ClientState(c), hits)
       IN st # ClientState(c) /\ Apply(c, st)
    /\ UNCHANGED inbox

\* Relay, game-state-update: after the storage write,
\* io.to(group).emit('game-state-changed', gameState), the sender included
Broadcast(e) ==
    /\ e \in serverQueue
    /\ serverQueue' = serverQueue \ {e}
    /\ inbox' = [c \in GameClients |->
                    IF connected[c]
                    THEN Append(inbox[c], [event |-> "game-state-changed",
                                           gameState |-> e.gameState])
                    ELSE inbox[c]]
    /\ UNCHANGED <<gameType, sessionId, mounted, connected, loopOn, eliminatedPlayers,
                   gameCompleted, bombHolderId, reports, published>>

\* The next event of client c's socket reaches its listener
Receive(c) ==
    /\ mounted[c] /\ inbox[c] # <<>>
    /\ LET ev == Head(inbox[c])
       IN IF ev.event = "game-state-changed"
          THEN Apply(c, handleGameStateChange(ClientState(c), ev.gameState))
          ELSE Apply(c, handlePlayerDisconnected(c, ClientState(c), ev.playerId))
    /\ inbox' = [inbox EXCEPT ![c] = Tail(@)]

\* Client c leaves the game (the component unmounts or the tab closes): the
\* effects' cleanups run and gameSocket.disconnect(); the relay's disconnect
\* handler emits player-disconnected to the group
Disconnect(c) ==
    /\ connected[c]
    /\ connected' = [connected EXCEPT ![c] = FALSE]
    /\ mounted' = [mounted EXCEPT ![c] = FALSE]
    /\ loopOn' = [loopOn EXCEPT ![c] = FALSE]
    /\ inbox' = [d \in GameClients |->
                    IF d = c THEN <<>>
                    ELSE IF connected[d]
                         THEN Append(inbox[d], [event |-> "player-disconnected",
                                                playerId |-> c])
                    ELSE inbox[d]]
    /\ UNCHANGED <<gameType, sessionId, eliminatedPlayers, gameCompleted,
                   bombHolderId, reports, serverQueue, published>>

\* the orders in which a frame's tile loop can meet the ghosts
Orders == UNION {Arrangements(GamePlayers, n) : n \in 0..Len(GameRoster)}

NextGame ==
    \/ (\E c \in GameClients, g \in GamePlayers : TagBombPass(c, g))
          /\ UNCHANGED otherVarsOfGame
    \/ (\E c \in GameClients : TagBombTimer(c)) /\ UNCHANGED otherVarsOfGame
    \/ (\E c \in GameClients, out \in SUBSET GamePlayers : PlatformPushTick(c, out))
          /\ UNCHANGED otherVarsOfGame
    \/ (\E c \in GameClients, fallen \in Orders : FallingTilesTick(c, fallen))
          /\ UNCHANGED otherVarsOfGame
    \/ (\E c \in GameClients, hits \in [GamePlayers -> 0..MaxHits] :
            BoulderRunTick(c, hits)) /\ UNCHANGED otherVarsOfGame
    \/ (\E e \in serverQueue : Broadcast(e)) /\ UNCHANGED otherVarsOfGame
    \/ (\E c \in GameClients : Receive(c)) /\ UNCHANGED otherVarsOfGame
    \/ (\E c \in GameClients : Disconnect(c)) /\ UNCHANGED otherVarsOfGame

----------------------------------------------------------------------------
(* The lobby of one room: createRoom and joinRoom of Room.ts against the   *)
(* rooms / players endpoints, the players poll of App.tsx and the start    *)
(* button of LobbyScreen.  Players rows are never deleted, so the polled   *)
(* players state of a client is a prefix of the stored rows.               *)

\* the palette of joinRoom and createRoom, and the roster cap of joinRoom
PaletteSize == 10
MaxRoomPlayers == 10
GhostColors == 1..PaletteSize
\* the values of rooms.min_players the model draws (the schema allows 2..10)
MinPlayersChoices == {2, 3}
JoinClients == {"host", "ann", "bob"}
Joiners == JoinClients \ {"host"}

otherVarsOfJoin == <<roomVars, blobVars, runVars, gameVars, soloVars, hubVars, seedVars, bombVars, dashVars, hostVars, pollVars, scoreVars>>

PlayerRow(owner, color) == [owner |-> owner, ghost_color |-> color]

\* a room one short of the roster cap, its rows holding distinct colors
SeededRows ==
    [i \in 1..(MaxRoomPlayers - 1) |->
        PlayerRow(IF i = 1 THEN "host" ELSE "other", i)]

InitJoin ==
    /\ minPlayers \in MinPlayersChoices
    /\ randomColor = [c \in JoinClients |-> 0]
    /\ playersState = [c \in JoinClients |-> 0]
    /\ \/ /\ lobbyStatus = "none"
          /\ playerRows = <<>>
          /\ jpc = [c \in JoinClients |-> "home"]
       \/ /\ lobbyStatus = "waiting"
          /\ playerRows = SeededRows
          /\ jpc = [c \in JoinClients |-> IF c = "host" THEN "lobby" ELSE "home"]

usedColors(existingPlayers) ==
    {existingPlayers[i].ghost_color : i \in DOMAIN existingPlayers}
availableColors(existingPlayers) == GhostColors \ usedColors(existingPlayers)

\* POST /api/players: a plain INSERT
CreatePlayer(c, color) ==
    playerRows' = Append(playerRows, PlayerRow(c, color))

\* createRoom up to its first await: POST /api/rooms
CreateRoomPost ==
    /\ jpc["host"] = "home"
    /\ lobbyStatus = "none"
    /\ lobbyStatus' = "waiting"
    /\ \E color \in GhostColors : randomColor' = [randomColor EXCEPT !["host"] = color]
    /\ jpc' = [jpc EXCEPT !["host"] = "create_player"]
    /\ UNCHANGED <<minPlayers, playerRows, playersState>>

\* createRoom after the room is stored: POST /api/players with a color
\* drawn from the whole palette
CreateRoomPlayer ==
    /\ jpc["host"] = "create_player"
    /\ CreatePlayer("host", randomColor["host"])
    /\ jpc' = [jpc EXCEPT !["host"] = "lobby"]
    /\ randomColor' = [randomColor EXCEPT !["host"] = 0]
    /\ UNCHANGED <<lobbyStatus, minPlayers, playersState>>

\* joinRoom up to its second await: the room is read and its status checked
JoinGetRoom(c) ==
    /\ jpc[c] = "home"
    /\ lobbyStatus # "none"
    /\ jpc' = [jpc EXCEPT ![c] = IF lobbyStatus # "waiting" THEN "rejected"
                                 ELSE "get_players"]
    /\ UNCHANGED <<lobbyStatus, minPlayers, playerRows, randomColor, playersState>>

\* joinRoom between the players read and the POST: palette and cap checks,
\* then the random draw among the colors the read did not show
JoinGetPlayers(c) ==
    /\ jpc[c] = "get_players"
    /\ LET existingPlayers == playerRows
       IN IF availableColors(existingPlayers) = {}
             \/ Len(existingPlayers) >= MaxRoomPlayers
          THEN /\ jpc' = [jpc EXCEPT ![c] = "rejected"]
               /\ UNCHANGED randomColor
          ELSE /\ jpc' = [jpc EXCEPT ![c] = "create_player"]
               /\ \E color \in availableColors(existingPlayers) :
                     randomColor' = [randomColor EXCEPT ![c] = color]
    /\ UNCHANGED <<lobbyStatus, minPlayers, playerRows, playersState>>

\* joinRoom's POST /api/players
JoinCreatePlayer(c) ==
    /\ jpc[c] = "create_player"
    /\ CreatePlayer(c, randomColor[c])
    /\ jpc' = [jpc EXCEPT ![c] = "lobby"]
    /\ randomColor' = [randomColor EXCEPT ![c] = 0]
    /\ UNCHANGED <<lobbyStatus, minPlayers, playersState>>

\* fetchPlayers of the App's room effect
FetchPlayers(c) ==
    /\ jpc[c] = "lobby"
    /\ playersState[c] # Len(playerRows)
    /\ playersState' = [playersState EXCEPT ![c] = Len(playerRows)]
    /\ UNCHANGED <<lobbyStatus, minPlayers, playerRows, jpc, randomColor>>

\* LobbyScreen: the start button is rendered for the host once canStart
isLobbyHost(c) == playersState[c] >= 1 /\ playerRows[1].owner = c
canStartUnchecked(c) == TRUE
canStart(c) == playersState[c] >= minPlayers

\* the start button's onClick: handleStartGame up to its first await
LobbyStartGame(c) ==
    /\ jpc[c] = "lobby"
    /\ isLobbyHost(c)
    /\ canStart(c)
    /\ lobbyStatus' = "playing"
    /\ jpc' = [jpc EXCEPT ![c] = "playing"]
    /\ UNCHANGED <<minPlayers, playerRows, randomColor, playersState>>

NextJoin ==
    \/ CreateRoomPost /\ UNCHANGED otherVarsOfJoin
    \/ CreateRoomPlayer /\ UNCHANGED otherVarsOfJoin
    \/ (\E c \in Joiners : JoinGetRoom(c)) /\ UNCHANGED otherVarsOfJoin
    \/ (\E c \in Joiners : JoinGetPlayers(c)) /\ UNCHANGED otherVarsOfJoin
    \/ (\E c \in Joiners : JoinCreatePlayer(c)) /\ UNCHANGED otherVarsOfJoin
    \/ (\E c \in JoinClients : FetchPlayers(c)) /\ UNCHANGED otherVarsOfJoin
    \/ (\E c \in JoinClients : LobbyStartGame(c)) /\ UNCHANGED otherVarsOfJoin

----------------------------------------------------------------------------
(* One minigame component on its own: the mount effect with a players prop *)
(* of any length, then its eliminations one event at a time (a timer       *)
(* expiry, a fall, a tile, a disconnect) or, for BoulderRun, frame by      *)
(* frame, up to the completion block.                                      *)

MaxRoster == 4
SoloRosters == UNION {Arrangements(1..MaxRoster, n) : n \in 0..MaxRoster}

otherVarsOfSolo == <<roomVars, blobVars, runVars, gameVars, joinVars, hubVars, seedVars, bombVars, dashVars, hostVars, pollVars, scoreVars>>

InitSolo ==
    /\ soloType \in GameTypes
    /\ soloPlayers \in SoloRosters
    /\ soloPhase = "props"
    /\ soloEliminated = <<>>
    /\ soloReports = <<>>

soloRemaining(list) == SelectSeq(soloPlayers, LAMBDA p : p \notin Range(list))

\* the mount effect: TagBomb, PlatformPush and FallingTiles return at once
\* on players.length < 2, BoulderRun always builds its state and its loop
SoloMount ==
    /\ soloPhase = "props"
    /\ IF soloType # "boulder_run" /\ Len(soloPlayers) < 2
       THEN /\ soloReports' = Append(soloReports, DegenerateRanking(soloPlayers))
            /\ soloPhase' = "returned"
       ELSE /\ soloPhase' = "looping"
            /\ UNCHANGED soloReports
    /\ UNCHANGED <<soloType, soloPlayers, soloEliminated>>

\* the completion block, entered when one player remains
SoloAfterPush(list) ==
    IF Len(soloRemaining(list)) = 1
    THEN /\ soloReports' = Append(soloReports, FinalRanking(soloPlayers, list))
         /\ soloPhase' = "done"
    ELSE /\ UNCHANGED soloReports
         /\ soloPhase' = IF soloType = "boulder_run" THEN "framed" ELSE soloPhase

\* TagBomb, PlatformPush, FallingTiles: player p is eliminated
SoloEliminate(p) ==
    /\ soloType # "boulder_run"
    /\ soloPhase = "looping"
    /\ p \in Range(soloPlayers) \ Range(soloEliminated)
    /\ soloEliminated' = Append(soloEliminated, p)
    /\ SoloAfterPush(soloEliminated')
    /\ UNCHANGED <<soloType, soloPlayers>>

\* BoulderRun: state.ghosts.forEach over the collisions, from ghost i on
RECURSIVE SoloCollisions(_, _, _)
SoloCollisions(list, hits, i) ==
    IF i > Len(soloPlayers) THEN list
    ELSE LET ghost == soloPlayers[i]
         IN SoloCollisions(
                IF ghost \in Range(list) THEN list
                ELSE BoulderHits([list |-> list, pubs |-> <<>>], ghost, hits[ghost]).list,
                hits, i + 1)

\* BoulderRun: one frame of the loop, hits[p] boulders touching ghost p
SoloBoulderFrame(hits) ==
    /\ soloType = "boulder_run"
    /\ soloPhase \in {"looping", "framed"}
    /\ soloEliminated' = SoloCollisions(soloEliminated, hits, 1)
    /\ SoloAfterPush(soloEliminated')
    /\ soloEliminated' # soloEliminated \/ soloPhase' # soloPhase
    /\ UNCHANGED <<soloType, soloPlayers>>

NextSolo ==
    \/ SoloMount /\ UNCHANGED otherVarsOfSolo
    \/ (\E p \in 1..MaxRoster : SoloEliminate(p)) /\ UNCHANGED otherVarsOfSolo
    \/ (\E hits \in [1..MaxRoster -> 0..MaxHits] : SoloBoulderFrame(hits))
          /\ UNCHANGED otherVarsOfSolo

----------------------------------------------------------------------------
(* The relay's connections: join-game, player-state-update and disconnect  *)
(* of the io.on('connection') block, fed by the GameSocketManager of the   *)
(* clients (one join-game per connection, always with a playerId).         *)

MaxUpdates == 1
Sockets == {"s1", "s2", "s3"}
HubSessions == {1, 2}
HubPlayers == {1, 2}

otherVarsOfHub == <<roomVars, blobVars, runVars, gameVars, joinVars, soloVars, seedVars, bombVars, dashVars, hostVars, pollVars, scoreVars>>

InitHub ==
    /\ socketState = [s \in Sockets |-> "idle"]
    /\ handshake = [s \in Sockets |-> [gameSessionId |-> 0, playerId |-> 0]]
    /\ rooms = [s \in Sockets |-> {}]
    /\ socketToPlayer = <<>>
    /\ playerToSocket = <<>>
    /\ updatesInFlight = {}
    /\ storageHung = {}
    /\ closing = {}
    /\ received = [s \in Sockets |-> <<>>]
    /\ updatesSent = 0

\* io.emit: every connected socket
ioEverySocket(gameSessionId) == {d \in Sockets : socketState[d] = "connected"}
\* io.to(`game-${gameSessionId}`): the sockets in the group
ioTo(gameSessionId) == {d \in Sockets : gameSessionId \in rooms[d]}
\* socket.to(`game-${gameSessionId}`): the group but the socket itself
socketToWithSender(socket, gameSessionId) == ioTo(gameSessionId)
socketTo(socket, gameSessionId) == ioTo(gameSessionId) \ {socket}

emit(to, ev) ==
    received' = [d \in Sockets |-> IF d \in to THEN Append(received[d], ev)
                                   ELSE received[d]]

MapSet(map, key, value) ==
    [k \in DOMAIN map \cup {key} |-> IF k = key THEN value ELSE map[k]]
MapDelete(map, key) == [k \in DOMAIN map \ {key} |-> map[k]]

\* GameSocketManager.connect: a new socket reaches the relay
Connect(socket, gameSessionId, playerId) ==
    /\ socketState[socket] = "idle"
    /\ socketState' = [socketState EXCEPT ![socket] = "connected"]
    /\ handshake' = [handshake EXCEPT ![socket] =
                        [gameSessionId |-> gameSessionId, playerId |-> playerId]]
    /\ UNCHANGED <<rooms, socketToPlayer, playerToSocket, updatesInFlight,
                   storageHung, closing, received, updatesSent>>

\* socket.on('join-game')
JoinGame(socket) ==
    /\ socketState[socket] = "connected"
    /\ handshake[socket].gameSessionId \notin rooms[socket]
    /\ rooms' = [rooms EXCEPT ![socket] = @ \cup {handshake[socket].gameSessionId}]
    /\ socketToPlayer' = MapSet(socketToPlayer, socket, handshake[socket])
    /\ playerToSocket' = MapSet(playerToSocket, handshake[socket].playerId, socket)
    /\ UNCHANGED <<socketState, handshake, updatesInFlight, storageHung, closing,
                   received, updatesSent>>

\* socket.on('player-state-update') up to its first await
PlayerStateUpdate(socket, hasBomb) ==
    LET data == [socket |-> socket,
                 gameSessionId |-> handshake[socket].gameSessionId,
                 playerId |-> handshake[socket].playerId,
                 position |-> "xy", hasBomb |-> hasBomb]
    IN /\ socketState[socket] = "connected"
       /\ updatesSent < MaxUpdates
       /\ data \notin updatesInFlight
       /\ updatesInFlight' = updatesInFlight \cup {data}
       /\ updatesSent' = updatesSent + 1
       /\ UNCHANGED <<socketState, handshake, rooms, socketToPlayer, playerToSocket,
                      storageHung, closing, received>>

\* the pool.connect() or the query the handler awaits never settles (the
\* pool has no timeout): the handler stays at its await
StorageHangs(data) ==
    /\ data \in updatesInFlight \ storageHung
    /\ storageHung' = storageHung \cup {data}
    /\ UNCHANGED <<socketState, handshake, rooms, socketToPlayer, playerToSocket,
                   updatesInFlight, closing, received, updatesSent>>

\* socket.on('player-state-update') once its awaits have settled (the write
\* done, or failed and caught): the broadcast
PlayerStateEmit(data) ==
    /\ data \in updatesInFlight \ storageHung
    /\ updatesInFlight' = updatesInFlight \ {data}
    /\ emit(socketTo(data.socket, data.gameSessionId),
            [event |-> "player-state-changed", playerId |-> data.playerId,
             position |-> data.position, hasBomb |-> data.hasBomb])
    /\ UNCHANGED <<socketState, handshake, rooms, socketToPlayer, playerToSocket,
                   storageHung, closing, updatesSent>>

\* socket.on('disconnect') up to its first await; the socket has left its
\* groups when the event fires
SocketDisconnect(socket) ==
    /\ socketState[socket] = "connected"
    /\ socketState' = [socketState EXCEPT ![socket] = "disconnected"]
    /\ rooms' = [rooms EXCEPT ![socket] = {}]
    /\ IF socket \in DOMAIN socketToPlayer
       THEN LET playerInfo == socketToPlayer[socket]
            IN /\ emit(ioTo(playerInfo.gameSessionId) \ {socket},
                       [event |-> "player-disconnected",
                        playerId |-> playerInfo.playerId,
                        gameSessionId |-> playerInfo.gameSessionId])
               /\ closing' = closing \cup {socket}
       ELSE UNCHANGED <<received, closing>>
    /\ UNCHANGED <<handshake, socketToPlayer, playerToSocket, updatesInFlight,
                   storageHung, updatesSent>>

\* socket.on('disconnect') after the storage write: the map deletes
DisconnectCleanup(socket) ==
    /\ socket \in closing
    /\ closing' = closing \ {socket}
    /\ playerToSocket' = MapDelete(playerToSocket, socketToPlayer[socket].playerId)
    /\ socketToPlayer' = MapDelete(socketToPlayer, socket)
    /\ UNCHANGED <<socketState, handshake, rooms, updatesInFlight, storageHung,
                   received, updatesSent>>

NextHub ==
    \/ (\E s \in Sockets, g \in HubSessions, p \in HubPlayers : Connect(s, g, p))
          /\ UNCHANGED otherVarsOfHub
    \/ (\E s \in Sockets : JoinGame(s)) /\ UNCHANGED otherVarsOfHub
    \/ (\E s \in Sockets, b \in BOOLEAN : PlayerStateUpdate(s, b))
          /\ UNCHANGED otherVarsOfHub
    \/ (\E data \in updatesInFlight : StorageHangs(data)) /\ UNCHANGED otherVarsOfHub
    \/ (\E data \in updatesInFlight : PlayerStateEmit(data)) /\ UNCHANGED otherVarsOfHub
    \/ (\E s \in Sockets : SocketDisconnect(s)) /\ UNCHANGED otherVarsOfHub
    \/ (\E s \in Sockets : DisconnectCleanup(s)) /\ UNCHANGED otherVarsOfHub

----------------------------------------------------------------------------
(* The seeded selection of TagBomb as two clients of one session compute   *)
(* it, each from its own listing of the same participants.                 *)

otherVarsOfSeed == <<roomVars, blobVars, runVars, gameVars, joinVars, soloVars, hubVars, bombVars, dashVars, hostVars, pollVars, scoreVars>>

\* the listings of every non-empty set of up to MaxRoster participants
SeedRosters == UNION {Arrangements(1..MaxRoster, n) : n \in 1..MaxRoster}

InitSeed ==
    /\ seedInput \in {x \in [id : SessionIds, a : SeedRosters, b : SeedRosters] :
                        Range(x.a) = Range(x.b)}
    /\ seedOutput = <<>>

\* [...list].sort((a, b) => a.id.localeCompare(b.id))
unsortedList(list) == list
RECURSIVE sortById(_)
sortById(list) ==
    IF Len(list) <= 1 THEN list
    ELSE LET sorted == sortById(SubSeq(list, 1, Len(list) - 1))
             x == list[Len(list)]
         IN SelectSeq(sorted, LAMBDA y : y <= x) \o <<x>>
                \o SelectSeq(sorted, LAMBDA y : y > x)

\* sorted[simpleHash(seed) % sorted.length]
selectBySeed(seed, list) ==
    LET sorted == sortById(list)
    IN sorted[simpleHashMod(seed, Len(sorted)) + 1]

\* both clients compute the holder: at mount (count = 0, the seed is the
\* session id) or after count eliminations (the seed is the id followed by
\* the length of the elimination list), each calling simpleHash itself
SeedSelect(count) ==
    /\ seedOutput = <<>>
    /\ LET seed == IF count = 0 THEN seedInput.id
                   ELSE seedInput.id \o ToChars(count)
       IN seedOutput' = [seed |-> seed,
                         hashA |-> AbsBits(HashBits(seed)),
                         hashB |-> AbsBits(HashBits(seed)),
                         a |-> selectBySeed(seed, seedInput.a),
                         b |-> selectBySeed(seed, seedInput.b)]
    /\ UNCHANGED seedInput

NextSeed ==
    \/ SeedSelect(0) /\ UNCHANGED otherVarsOfSeed
    \/ (\E count \in 1..MaxRoster : SeedSelect(count)) /\ UNCHANGED otherVarsOfSeed

----------------------------------------------------------------------------
(* TagBomb among three clients: each client's bomb holder, the pass and the *)
(* timer expiry of each client's gameLoop, and the relay between them.      *)

MaxBombPublishes == 3    \* game-state-update events emitted in one run
MaxBombSyncs == 1        \* player-state-changed events handled in one run

\* The players prop of the session, in join order
BombRoster == <<3, 1, 2>>

BombPlayers == Range(BombRoster)

\* client c plays as player c
BombClients == BombPlayers

otherVarsOfBomb == <<roomVars, blobVars, runVars, gameVars, joinVars, soloVars, hubVars, seedVars, dashVars, hostVars, pollVars, scoreVars>>

\* Array.from(state.ghosts.values()).filter(g => !eliminatedPlayers.includes(g.id))
bombRemaining(list) == SelectSeq(BombRoster, LAMBDA p : p \notin Range(list))

\* initGame: sortedPlayerIds[simpleHash(gameSessionId) % length]
\* the session played by the three clients: "9b1deb4d"
BombSessionIds == {<<57, 98, 49, 100, 101, 98, 52, 100>>}

InitBomb ==
    /\ bombSession \in BombSessionIds
    /\ bombHolder = [c \in BombClients |-> selectBySeed(bombSession, BombRoster)]
    /\ bombEliminated = [c \in BombClients |-> <<>>]
    /\ bombCompleted = [c \in BombClients |-> FALSE]
    /\ bombLoop = [c \in BombClients |-> TRUE]
    /\ bombQueue = {}
    /\ bombInbox = [c \in BombClients |-> <<>>]
    /\ bombPublished = 0
    /\ withBomb = [c \in BombClients |-> {selectBySeed(bombSession, BombRoster)}]
    /\ bombSyncs = 0

\* gameSocket.updateGameState(msg) for each msg of msgs
bombEmit(msgs) ==
    /\ bombPublished + Len(msgs) <= MaxBombPublishes
    /\ bombQueue' = bombQueue \cup
           {[n |-> bombPublished + i, gameState |-> msgs[i]] : i \in 1..Len(msgs)}
    /\ bombPublished' = bombPublished + Len(msgs)

\* gameLoop: the bomb holder is within reach of closestGhost
BombPass(c, closestGhost) ==
    /\ bombLoop[c]
    /\ bombHolder[c] # 0
    /\ bombHolder[c] \notin Range(bombEliminated[c])
    /\ closestGhost # bombHolder[c]
    /\ closestGhost \notin Range(bombEliminated[c])
    /\ bombHolder' = [bombHolder EXCEPT ![c] = closestGhost]
    /\ withBomb' = [withBomb EXCEPT ![c] = (@ \ {bombHolder[c]}) \cup {closestGhost}]
    /\ bombEmit(<<[bomb_holder_id |-> closestGhost]>>)
    /\ UNCHANGED <<bombSession, bombEliminated, bombCompleted, bombLoop, bombInbox,
                   bombSyncs>>

\* gameLoop: state.bombTimer <= 0 && state.bombHolderId
BombExpire(c) ==
    /\ bombLoop[c]
    /\ bombHolder[c] # 0
    /\ LET list == Append(bombEliminated[c], bombHolder[c])
           remainingPlayers == bombRemaining(list)
           done == Len(remainingPlayers) = 1 /\ ~bombCompleted[c]
           seed == bombSession \o ToChars(Len(list))
       IN /\ bombEliminated' = [bombEliminated EXCEPT ![c] = list]
          /\ bombCompleted' = [bombCompleted EXCEPT ![c] = @ \/ done]
          /\ bombLoop' = [bombLoop EXCEPT ![c] = @ /\ ~done]
          /\ bombHolder' = [bombHolder EXCEPT ![c] =
                                IF ~done /\ Len(remainingPlayers) > 0
                                THEN selectBySeed(seed, remainingPlayers)
                                ELSE @]
          /\ withBomb' = [withBomb EXCEPT ![c] =
                             IF ~done /\ Len(remainingPlayers) > 0
                             THEN (@ \ {bombHolder[c]})
                                     \cup {selectBySeed(seed, remainingPlayers)}
                             ELSE @ \ {bombHolder[c]}]
          /\ bombEmit(<<[eliminated_players |-> list, bomb_holder_id |-> 0]>>
                      \o IF done
                         THEN <<CompletionMsg(list, FinalRanking(BombRoster, list))>>
                         ELSE <<>>)
    /\ UNCHANGED <<bombSession, bombInbox, bombSyncs>>

\* Relay, game-state-update: io.to(group).emit('game-state-changed', gameState)
BombBroadcast(e) ==
    /\ e \in bombQueue
    /\ bombQueue' = bombQueue \ {e}
    /\ bombInbox' = [c \in BombClients |-> Append(bombInbox[c], e.gameState)]
    /\ UNCHANGED <<bombSession, bombHolder, bombEliminated, bombCompleted, bombLoop,
                   bombPublished, withBomb, bombSyncs>>

\* The 50 ms sync of client c sends its own ghost's hasBomb; the relay passes
\* it on and handlePlayerStateChange of client d stores it (the events that
\* change nothing on d are left out)
BombPlayerState(c, d) ==
    /\ c # d
    /\ (c \in withBomb[c]) # (c \in withBomb[d])
    /\ bombSyncs < MaxBombSyncs
    /\ bombSyncs' = bombSyncs + 1
    /\ withBomb' = [withBomb EXCEPT ![d] = IF c \in withBomb[c] THEN @ \cup {c}
                                         ELSE @ \ {c}]
    /\ UNCHANGED <<bombSession, bombHolder, bombEliminated, bombCompleted, bombLoop,
                   bombQueue, bombInbox, bombPublished>>

\* handleGameStateChange of client c on the next event of its socket
BombReceive(c) ==
    /\ bombInbox[c] # <<>>
    /\ LET gameState == Head(bombInbox[c])
           newEliminated == gameState["eliminated_players"]
           ends == /\ HasKey(gameState, "eliminated_players")
                   /\ Len(bombRemaining(newEliminated)) = 1
                   /\ ~bombCompleted[c]
                   /\ HasKey(gameState, "game_completed")
       IN /\ bombHolder' = [bombHolder EXCEPT ![c] =
                                IF HasKey(gameState, "bomb_holder_id")
                                THEN gameState["bomb_holder_id"] ELSE @]
          /\ withBomb' = [withBomb EXCEPT ![c] =
                             IF HasKey(gameState, "bomb_holder_id")
                             THEN BombPlayers \cap {gameState["bomb_holder_id"]}
                             ELSE @]
          /\ bombEliminated' = [bombEliminated EXCEPT ![c] =
                                    IF HasKey(gameState, "eliminated_players")
                                    THEN newEliminated ELSE @]
          /\ bombCompleted' = [bombCompleted EXCEPT ![c] = @ \/ ends]
          /\ bombLoop' = [bombLoop EXCEPT ![c] =
                              @ /\ ~(ends /\ HasKey(gameState, "results"))]
    /\ bombInbox' = [bombInbox EXCEPT ![c] = Tail(@)]
    /\ UNCHANGED <<bombSession, bombQueue, bombPublished, bombSyncs>>

NextBomb ==
    \/ (\E c \in BombClients, g \in BombPlayers : BombPass(c, g))
          /\ UNCHANGED otherVarsOfBomb
    \/ (\E c \in BombClients : BombExpire(c)) /\ UNCHANGED otherVarsOfBomb
    \/ (\E e \in bombQueue : BombBroadcast(e)) /\ UNCHANGED otherVarsOfBomb
    \/ (\E c \in BombClients : BombReceive(c)) /\ UNCHANGED otherVarsOfBomb
    \/ (\E c, d \in BombClients : BombPlayerState(c, d)) /\ UNCHANGED otherVarsOfBomb

BombUnused ==
    /\ bombSession = <<>> /\ bombHolder = <<>> /\ bombEliminated = <<>>
    /\ bombCompleted = <<>> /\ bombLoop = <<>> /\ bombQueue = {}
    /\ bombInbox = <<>> /\ bombPublished = 0 /\ withBomb = <<>> /\ bombSyncs = 0

----------------------------------------------------------------------------
(* One Ghost of GameManager.ts: the dash, its timer and its cooldown        *)

MaxDashCalls == 4          \* activateDash calls in one run

dashCooldownTime == 2000   \* ms

\* the frame times (ms) passed to updateCooldown
DeltaTimes == {16, 500}

otherVarsOfDash == <<roomVars, blobVars, runVars, gameVars, joinVars, soloVars, hubVars, seedVars, bombVars, hostVars, pollVars, scoreVars>>

\* constructor
InitDash ==
    /\ isDashing = FALSE
    /\ dashCooldown = 0
    /\ dashTimeout = 0
    /\ dashTimers = {}
    /\ dashCalls = 0
    /\ dashCleaned = FALSE

alwaysReady(cooldown, dashing) == TRUE

\* the condition of activateDash
dashReady(cooldown, dashing) == cooldown <= 0 /\ ~dashing

\* handleKeyDown (space or shift) calls activateDash while it is registered
activateDash ==
    /\ ~dashCleaned
    /\ dashCalls < MaxDashCalls
    /\ dashCalls' = dashCalls + 1
    /\ UNCHANGED dashCleaned
    /\ IF dashReady(dashCooldown, isDashing)
       THEN /\ isDashing' = TRUE
            /\ dashTimeout' = dashTimeout + 1
            /\ dashTimers' = dashTimers \cup {dashTimeout + 1}
            /\ UNCHANGED dashCooldown
       ELSE UNCHANGED <<isDashing, dashCooldown, dashTimeout, dashTimers>>

\* the callback of the timer set by activateDash, dashDuration later
DashTimerFires(t) ==
    /\ t \in dashTimers
    /\ isDashing' = FALSE
    /\ dashCooldown' = dashCooldownTime
    /\ dashTimers' = dashTimers \ {t}
    /\ UNCHANGED <<dashTimeout, dashCalls, dashCleaned>>

unclampedCooldown(deltaTime) ==
    /\ ~dashCleaned
    /\ dashCooldown' = IF dashCooldown > 0 THEN dashCooldown - deltaTime
                       ELSE dashCooldown
    /\ UNCHANGED <<isDashing, dashTimeout, dashTimers, dashCalls, dashCleaned>>

\* gameLoop calls updateCooldown while its frame is scheduled
updateCooldown(deltaTime) ==
    /\ ~dashCleaned
    /\ dashCooldown' = IF dashCooldown > 0
                       THEN (IF dashCooldown - deltaTime > 0
                             THEN dashCooldown - deltaTime ELSE 0)
                       ELSE dashCooldown
    /\ UNCHANGED <<isDashing, dashTimeout, dashTimers, dashCalls, dashCleaned>>

leakyCleanup ==
    /\ ~dashCleaned
    /\ dashCleaned' = TRUE
    /\ UNCHANGED <<isDashing, dashCooldown, dashTimeout, dashTimers, dashCalls>>

\* The effect's cleanup at unmount: cancelAnimationFrame, removeEventListener
\* and Ghost.cleanup: if (this.dashTimeout) clearTimeout(this.dashTimeout)
cleanup ==
    /\ ~dashCleaned
    /\ dashCleaned' = TRUE
    /\ dashTimers' = IF dashTimeout # 0 THEN dashTimers \ {dashTimeout}
                     ELSE dashTimers
    /\ UNCHANGED <<isDashing, dashCooldown, dashTimeout, dashCalls>>

NextDash ==
    \/ activateDash /\ UNCHANGED otherVarsOfDash
    \/ (\E t \in dashTimers : DashTimerFires(t)) /\ UNCHANGED otherVarsOfDash
    \/ (\E deltaTime \in DeltaTimes : updateCooldown(deltaTime))
          /\ UNCHANGED otherVarsOfDash
    \/ cleanup /\ UNCHANGED otherVarsOfDash

DashUnused ==
    /\ isDashing = FALSE /\ dashCooldown = 0 /\ dashTimeout = 0
    /\ dashTimers = {} /\ dashCalls = 0 /\ dashCleaned = FALSE

----------------------------------------------------------------------------
(* handleStartGame of App.tsx run to its end with no other client acting:   *)
(* the stored players rows of the room in join order, the prefix of them    *)
(* the client has polled, the client's own player (0: none), and the        *)
(* stored room and session statuses.                                        *)

SessionStatuses == {"pending", "active", "completed"}

otherVarsOfHost == <<roomVars, blobVars, runVars, gameVars, joinVars, soloVars, hubVars, seedVars, bombVars, dashVars, pollVars, scoreVars>>

InitHost ==
    /\ hostInput \in
          {x \in [rows : SoloRosters \ {<<>>}, polled : 0..MaxRoster,
                  me : 0..MaxRoster, status : {"waiting", "playing"},
                  sessions : [1..2 -> SessionStatuses]] :
              /\ x.polled <= Len(x.rows)
              /\ x.me \in Range(x.rows) \cup {0}}
    /\ hostOutput = <<>>

everyoneIsHost(players, currentPlayer) == TRUE

\* const isHost = players[0]?.id === currentPlayer.id
isHost(players, currentPlayer) ==
    players # <<>> /\ players[1] = currentPlayer

\* handleStartGame: the statuses it leaves in the store
handleStartGame(in) ==
    LET players == SubSeq(in.rows, 1, in.polled)
        pending == {g \in DOMAIN in.sessions : in.sessions[g] = "pending"}
        nextGame == LowestOf(pending)
    IN IF in.me = 0 \/ ~isHost(players, in.me)
       THEN [status |-> in.status, sessions |-> in.sessions]
       ELSE [status |-> "playing",
             sessions |-> IF nextGame = 0 THEN in.sessions
                          ELSE [in.sessions EXCEPT ![nextGame] = "active"]]

HostStartGame ==
    /\ hostOutput = <<>>
    /\ hostOutput' = handleStartGame(hostInput)
    /\ UNCHANGED hostInput

NextHost == HostStartGame /\ UNCHANGED otherVarsOfHost

HostUnused == hostInput = <<>> /\ hostOutput = <<>>

----------------------------------------------------------------------------
(* The lobby effect of App.tsx on the clients that wait for the host: the   *)
(* interval of subscribeToRoom, checkStatus await by await, fetches that    *)
(* fail (getRoomByCode then returns null, getCurrentGame and getNextGame    *)
(* return null, startGame returns false), and the host starting the game.   *)

MaxPollFailures == 3            \* fetches that fail in one run

MAX_CONSECUTIVE_ERRORS == 3

PollClients == {"ann", "bob"}

otherVarsOfPoll == <<roomVars, blobVars, runVars, gameVars, joinVars, soloVars, hubVars, seedVars, bombVars, dashVars, hostVars, scoreVars>>

InitPoll ==
    /\ pollRoom = "waiting"
    /\ pollSession = "pending"
    /\ pollState = [c \in PollClients |-> "lobby"]
    /\ consecutiveErrors = [c \in PollClients |-> 0]
    /\ subscribed = [c \in PollClients |-> TRUE]
    /\ pollPc = [c \in PollClients |-> "idle"]
    /\ pollFailures = 0

\* a fetch answers (ok) or fails, while failures are left
FetchOutcome(ok) ==
    /\ ~ok => pollFailures < MaxPollFailures
    /\ pollFailures' = IF ok THEN pollFailures ELSE pollFailures + 1

\* the host's handleStartGame: updateRoomStatus(room.id, 'playing')
HostSetsPlaying ==
    /\ pollRoom = "waiting"
    /\ pollRoom' = "playing"
    /\ UNCHANGED <<pollSession, pollState, consecutiveErrors, subscribed, pollPc,
                   pollFailures>>

\* the host's handleStartGame: startGame(nextGame.id)
HostStartsSession ==
    /\ pollRoom = "playing" /\ pollSession = "pending"
    /\ pollSession' = "active"
    /\ UNCHANGED <<pollRoom, pollState, consecutiveErrors, subscribed, pollPc,
                   pollFailures>>

\* the interval fires and checkStatus runs up to await getRoomByCode
PollTick(c) ==
    /\ subscribed[c] /\ pollState[c] = "lobby" /\ pollPc[c] = "idle"
    /\ pollPc' = [pollPc EXCEPT ![c] = "room"]
    /\ UNCHANGED <<pollRoom, pollSession, pollState, consecutiveErrors, subscribed,
                   pollFailures>>

\* consecutiveErrors++; at MAX_CONSECUTIVE_ERRORS unsubscribe()
countError(c, errors) ==
    IF errors >= MAX_CONSECUTIVE_ERRORS THEN [subscribed EXCEPT ![c] = FALSE]
    ELSE subscribed

\* checkStatus after getRoomByCode
PollRoom(c, ok) ==
    /\ pollPc[c] = "room"
    /\ FetchOutcome(ok)
    /\ IF ~ok
       THEN /\ consecutiveErrors' = [consecutiveErrors EXCEPT ![c] = @ + 1]
            /\ subscribed' = countError(c, consecutiveErrors[c] + 1)
            /\ pollPc' = [pollPc EXCEPT ![c] = "idle"]
       ELSE /\ consecutiveErrors' = [consecutiveErrors EXCEPT ![c] = 0]
            /\ pollPc' = [pollPc EXCEPT ![c] =
                              IF pollRoom = "playing" THEN "current" ELSE "idle"]
            /\ UNCHANGED subscribed
    /\ UNCHANGED <<pollRoom, pollSession, pollState>>

\* checkStatus after getCurrentGame: an active game is entered
PollCurrent(c, ok) ==
    /\ pollPc[c] = "current"
    /\ FetchOutcome(ok)
    /\ IF ok /\ pollSession = "active"
       THEN /\ pollState' = [pollState EXCEPT ![c] = "playing"]
            /\ pollPc' = [pollPc EXCEPT ![c] = "idle"]
       ELSE /\ pollPc' = [pollPc EXCEPT ![c] = "next"]
            /\ UNCHANGED pollState
    /\ UNCHANGED <<pollRoom, pollSession, consecutiveErrors, subscribed>>

\* checkStatus after getNextGame
PollNext(c, ok) ==
    /\ pollPc[c] = "next"
    /\ FetchOutcome(ok)
    /\ pollPc' = [pollPc EXCEPT ![c] =
                      IF ok /\ pollSession = "pending" THEN "start" ELSE "idle"]
    /\ UNCHANGED <<pollRoom, pollSession, pollState, consecutiveErrors, subscribed>>

\* checkStatus after startGame, whose result is not looked at
PollStart(c, ok) ==
    /\ pollPc[c] = "start"
    /\ FetchOutcome(ok)
    /\ pollSession' = IF ok THEN "active" ELSE pollSession
    /\ pollState' = [pollState EXCEPT ![c] = "playing"]
    /\ pollPc' = [pollPc EXCEPT ![c] = "idle"]
    /\ UNCHANGED <<pollRoom, consecutiveErrors, subscribed>>

NextPoll ==
    \/ HostSetsPlaying /\ UNCHANGED otherVarsOfPoll
    \/ HostStartsSession /\ UNCHANGED otherVarsOfPoll
    \/ (\E c \in PollClients : PollTick(c)) /\ UNCHANGED otherVarsOfPoll
    \/ (\E c \in PollClients, ok \in BOOLEAN : PollRoom(c, ok))
          /\ UNCHANGED otherVarsOfPoll
    \/ (\E c \in PollClients, ok \in BOOLEAN : PollCurrent(c, ok))
          /\ UNCHANGED otherVarsOfPoll
    \/ (\E c \in PollClients, ok \in BOOLEAN : PollNext(c, ok))
          /\ UNCHANGED otherVarsOfPoll
    \/ (\E c \in PollClients, ok \in BOOLEAN : PollStart(c, ok))
          /\ UNCHANGED otherVarsOfPoll

PollUnused ==
    /\ pollRoom = "" /\ pollSession = "" /\ pollState = <<>>
    /\ consecutiveErrors = <<>> /\ subscribed = <<>> /\ pollPc = <<>>
    /\ pollFailures = 0

----------------------------------------------------------------------------
(* GameManager.completeGame run to its end with no other client acting:    *)
(* the ranking it is given, the stored total_score of every player and the *)
(* stored session status, and the requests that fail (the PATCH of the     *)
(* session, the GET of a player, the PATCH of a player; request() of       *)
(* api.ts throws on every response that is not ok).                        *)

ScorePlayers == {1, 2, 3}

MaxStoredScore == 1     \* total_score of a player before the call

otherVarsOfScore == <<roomVars, blobVars, runVars, gameVars, joinVars, soloVars, hubVars, seedVars, bombVars, dashVars, hostVars, pollVars>>

InitScore ==
    /\ scoreInput \in
          [results : {FinalRanking(<<1, 2, 3>>, order) :
                         order \in Arrangements(ScorePlayers, 2)},
           scores : [ScorePlayers -> 0..MaxStoredScore],
           status : {"active"},
           sessionFails : BOOLEAN,
           readFails : SUBSET ScorePlayers,
           writeFails : SUBSET ScorePlayers]
    /\ scoreOutput = <<>>

sessionUpdateIgnored(in) == FALSE

\* await api.gameSessions.update(gameId, {status: 'completed', ...}) throws
sessionUpdateThrows(in) == in.sessionFails

\* for (const result of results) { try { getById; update } catch { log } }
RECURSIVE updateScores(_, _, _)
updateScores(in, scores, i) ==
    IF i > Len(in.results) THEN scores
    ELSE LET result == in.results[i]
             thrown == result.player_id \in in.readFails \cup in.writeFails
             read == scores[result.player_id]
         IN updateScores(in,
                         IF thrown THEN scores
                         ELSE [scores EXCEPT ![result.player_id] = read + result.points],
                         i + 1)

\* completeGame: what it returns and what it leaves in the store
completeGame(in) ==
    IF sessionUpdateThrows(in)
    THEN [returned |-> FALSE, scores |-> in.scores, status |-> in.status]
    ELSE [returned |-> TRUE, scores |-> updateScores(in, in.scores, 1),
          status |-> "completed"]

CompleteGameCall ==
    /\ scoreOutput = <<>>
    /\ scoreOutput' = completeGame(scoreInput)
    /\ UNCHANGED scoreInput

NextScore == CompleteGameCall /\ UNCHANGED otherVarsOfScore

ScoreUnused == scoreInput = <<>> /\ scoreOutput = <<>>

\* The parts of the state a specification does not use stay as constructed
BlobUnused == blob = <<>> /\ relayOp = <<>> /\ relayPc = {}
RunUnused == runBlob = <<>> /\ runQueue = <<>>
GameUnused ==
    /\ gameType = "" /\ sessionId = <<>>
    /\ mounted = <<>> /\ connected = <<>> /\ loopOn = <<>>
    /\ eliminatedPlayers = <<>> /\ gameCompleted = <<>> /\ bombHolderId = <<>>
    /\ reports = <<>> /\ serverQueue = {} /\ inbox = <<>> /\ published = 0
RoomUnused ==
    /\ roomStatus = "" /\ maxGames = 0 /\ sessions = <<>> /\ totalScore = <<>>
    /\ appState = <<>> /\ currentGame = <<>> /\ hpc = <<>> /\ hloc = <<>>
    /\ ppc = <<>> /\ ploc = <<>> /\ polls = <<>> /\ applied = <<>>

SeedUnused == seedInput = <<>> /\ seedOutput = <<>>
HubUnused ==
    /\ socketState = <<>> /\ handshake = <<>> /\ rooms = <<>>
    /\ socketToPlayer = <<>> /\ playerToSocket = <<>> /\ updatesInFlight = {}
    /\ storageHung = {}
    /\ closing = {} /\ received = <<>> /\ updatesSent = 0
SoloUnused ==
    /\ soloType = "" /\ soloPlayers = <<>> /\ soloPhase = ""
    /\ soloEliminated = <<>> /\ soloReports = <<>>
JoinUnused ==
    /\ lobbyStatus = "" /\ minPlayers = 0 /\ playerRows = <<>>
    /\ jpc = <<>> /\ randomColor = <<>> /\ playersState = <<>>

StartRoom == InitRoom /\ BlobUnused /\ RunUnused /\ GameUnused /\ JoinUnused /\ SoloUnused /\ HubUnused /\ SeedUnused /\ BombUnused /\ DashUnused /\ HostUnused /\ PollUnused /\ ScoreUnused

SpecRoom == StartRoom /\ [][NextRoom]_vars

StartBlob == InitBlob /\ RoomUnused /\ RunUnused /\ GameUnused /\ JoinUnused /\ SoloUnused /\ HubUnused /\ SeedUnused /\ BombUnused /\ DashUnused /\ HostUnused /\ PollUnused /\ ScoreUnused

SpecBlob == StartBlob /\ [][NextBlob]_vars

StartCommute == InitCommute /\ RoomUnused /\ BlobUnused /\ GameUnused /\ JoinUnused /\ SoloUnused /\ HubUnused /\ SeedUnused /\ BombUnused /\ DashUnused /\ HostUnused /\ PollUnused /\ ScoreUnused

SpecCommute == StartCommute /\ [][NextCommute]_vars

StartGame == InitGame /\ RoomUnused /\ BlobUnused /\ RunUnused /\ JoinUnused /\ SoloUnused /\ HubUnused /\ SeedUnused /\ BombUnused /\ DashUnused /\ HostUnused /\ PollUnused /\ ScoreUnused

SpecGame == StartGame /\ [][NextGame]_vars

StartJoin == InitJoin /\ RoomUnused /\ BlobUnused /\ RunUnused /\ GameUnused /\ SoloUnused /\ HubUnused /\ SeedUnused /\ BombUnused /\ DashUnused /\ HostUnused /\ PollUnused /\ ScoreUnused

SpecJoin == StartJoin /\ [][NextJoin]_vars

StartSolo == InitSolo /\ RoomUnused /\ BlobUnused /\ RunUnused /\ GameUnused /\ JoinUnused /\ HubUnused /\ SeedUnused /\ BombUnused /\ DashUnused /\ HostUnused /\ PollUnused /\ ScoreUnused

SpecSolo == StartSolo /\ [][NextSolo]_vars

StartHub == InitHub /\ RoomUnused /\ BlobUnused /\ RunUnused /\ GameUnused /\ JoinUnused /\ SoloUnused /\ SeedUnused /\ BombUnused /\ DashUnused /\ HostUnused /\ PollUnused /\ ScoreUnused

SpecHub == StartHub /\ [][NextHub]_vars

StartSeed == InitSeed /\ RoomUnused /\ BlobUnused /\ RunUnused /\ GameUnused /\ JoinUnused /\ SoloUnused /\ HubUnused /\ BombUnused /\ DashUnused /\ HostUnused /\ PollUnused /\ ScoreUnused

SpecSeed == StartSeed /\ [][NextSeed]_vars

StartBomb == InitBomb /\ RoomUnused /\ BlobUnused /\ RunUnused /\ GameUnused /\ JoinUnused /\ SoloUnused /\ HubUnused /\ SeedUnused /\ DashUnused /\ HostUnused /\ PollUnused /\ ScoreUnused

SpecBomb == StartBomb /\ [][NextBomb]_vars

StartDash == InitDash /\ RoomUnused /\ BlobUnused /\ RunUnused /\ GameUnused /\ JoinUnused /\ SoloUnused /\ HubUnused /\ SeedUnused /\ BombUnused /\ HostUnused /\ PollUnused /\ ScoreUnused

SpecDash == StartDash /\ [][NextDash]_vars

StartHost == InitHost /\ RoomUnused /\ BlobUnused /\ RunUnused /\ GameUnused /\ JoinUnused /\ SoloUnused /\ HubUnused /\ SeedUnused /\ BombUnused /\ DashUnused /\ PollUnused /\ ScoreUnused

SpecHost == StartHost /\ [][NextHost]_vars

StartPoll == InitPoll /\ RoomUnused /\ BlobUnused /\ RunUnused /\ GameUnused /\ JoinUnused /\ SoloUnused /\ HubUnused /\ SeedUnused /\ BombUnused /\ DashUnused /\ HostUnused /\ ScoreUnused

SpecPoll == StartPoll /\ [][NextPoll]_vars

StartScore == InitScore /\ RoomUnused /\ BlobUnused /\ RunUnused /\ GameUnused /\ JoinUnused /\ SoloUnused /\ HubUnused /\ SeedUnused /\ BombUnused /\ DashUnused /\ HostUnused /\ PollUnused

SpecScore == StartScore /\ [][NextScore]_vars

\* every interval that is set keeps firing, every fetch settles, and the host
\* goes through with the start
FairSpecPoll ==
    /\ SpecPoll
    /\ WF_vars(HostSetsPlaying /\ UNCHANGED otherVarsOfPoll)
    /\ WF_vars(HostStartsSession /\ UNCHANGED otherVarsOfPoll)
    /\ \A c \in PollClients :
          /\ WF_vars(PollTick(c) /\ UNCHANGED otherVarsOfPoll)
          /\ WF_vars((\E ok \in BOOLEAN : PollRoom(c, ok)) /\ UNCHANGED otherVarsOfPoll)
          /\ WF_vars((\E ok \in BOOLEAN : PollCurrent(c, ok)) /\ UNCHANGED otherVarsOfPoll)
          /\ WF_vars((\E ok \in BOOLEAN : PollNext(c, ok)) /\ UNCHANGED otherVarsOfPoll)
          /\ WF_vars((\E ok \in BOOLEAN : PollStart(c, ok)) /\ UNCHANGED otherVarsOfPoll)

\* the browser runs a timer that is due, and the game loop keeps ticking
FairSpecDash ==
    /\ SpecDash
    /\ WF_vars((\E t \in dashTimers : DashTimerFires(t)) /\ UNCHANGED otherVarsOfDash)
    /\ WF_vars((\E deltaTime \in DeltaTimes : updateCooldown(deltaTime))
                  /\ UNCHANGED otherVarsOfDash)

\* the event loop runs every handler whose awaits have settled
FairSpecHub ==
    SpecHub /\ WF_vars((\E data \in updatesInFlight : PlayerStateEmit(data))
                           /\ UNCHANGED otherVarsOfHub)

----------------------------------------------------------------------------
(* Properties of the room / game-session lifecycle *)

\* C4: whatever number of times completion is triggered for one session,
\* each ranked player's total_score is incremented for that session once.
ScoreAppliedOncePerSession ==
    \A g \in DOMAIN applied : \A p \in DOMAIN applied[g] : applied[g][p] <= 1

\* C5: once the room is finished, all its sessions are completed and no
\* handler is running, each player's total_score is the sum of the player's
\* points over the rankings stored in the sessions.
AllSessionsRun ==
    /\ roomStatus = "finished"
    /\ \A g \in GameNumbers : sessions[g].status = "completed"
    /\ \A c \in Clients : hpc[c] = "idle" /\ ppc[c] = "idle"

FinalScoreIsSumOfResults ==
    AllSessionsRun =>
        \A p \in Clients :
            totalScore[p] =
                SumOver(GameNumbers, [g \in GameNumbers |-> PointsIn(sessions[g].results, p)])

\* C6: at most one game session of the room is active.
AtMostOneActiveSession == Cardinality(SessionsWithStatus("active")) <= 1

\* C7: a session moves from pending to active only when no session is
\* active: an attempt that finds a slot already advanced activates nothing.
RedundantAdvanceActivatesNothing ==
    [][\A g \in GameNumbers :
          (sessions[g].status = "pending" /\ sessions'[g].status = "active")
              => SessionsWithStatus("active") = {}]_vars

\* C8: the stored room status never moves backwards along
\* waiting -> playing -> finished.
StatusRank(st) == CASE st = "waiting" -> 0 [] st = "playing" -> 1 [] OTHER -> 2

RoomStatusOnlyAdvances == [][StatusRank(roomStatus') >= StatusRank(roomStatus)]_vars

----------------------------------------------------------------------------
(* Properties of the relay's game_state blob *)

\* shallow key-by-key merge of a partial state into a blob
ShallowMerge(stored, partial) ==
    [k \in DOMAIN stored \cup DOMAIN partial |->
        IF k \in DOMAIN partial THEN partial[k] ELSE stored[k]]

\* C9: right after a game-state-update is processed the stored blob is the
\* shallow merge of the previous blob with the partial state, so the keys the
\* partial state lacks keep their values.
PersistedBlobIsShallowMerge ==
    relayOp.op = "game-state-update" =>
        blob = ShallowMerge(relayOp.prev, relayOp.partial)

\* C10: two partial states with different keys commute: once both replicas
\* have processed both updates they store the same blob.
DisjointUpdatesCommute ==
    (\A r \in Runs : runQueue[r] = <<>>) => runBlob[1] = runBlob[2]

----------------------------------------------------------------------------
(* Properties of the minigame clients of one session *)

AllReports == UNION {Range(reports[c]) : c \in GameClients}

RanksOf(results) == {results[i].rank : i \in 1..Len(results)}

\* C1: every ranking a minigame client passes to onGameComplete for the
\* roster of N >= 2 players has exactly the ranks 1..N, none of them twice,
\* and gives every record N - rank + 1 points.
CompletedRankingIsWellFormed ==
    \A results \in AllReports :
        LET N == Len(GameRoster)
        IN /\ RanksOf(results) = 1..N
           /\ Len(results) = N
           /\ \A i \in 1..Len(results) : results[i].points = N - results[i].rank + 1

\* C2: all the clients of the session that report a final ranking report the
\* same ranking.
AllClientsReportSameRanking ==
    \A r1 \in AllReports, r2 \in AllReports : r1 = r2

\* Clients c and d have folded the same publishes: both have been in the
\* group from the start and have handled every event emitted to them, and
\* the relay has broadcast every publish it was sent.
FoldedSame(c, d) ==
    /\ mounted[c] /\ mounted[d] /\ connected[c] /\ connected[d]
    /\ inbox[c] = <<>> /\ inbox[d] = <<>>
    /\ serverQueue = {}

\* C3: two clients that have folded the same elimination-list publishes hold
\* the same elimination list and have computed the same final ranking.
SamePublishesSameRanking ==
    \A c \in GameClients, d \in GameClients :
        FoldedSame(c, d) =>
            /\ eliminatedPlayers[c] = eliminatedPlayers[d]
            /\ \A r1 \in Range(reports[c]), r2 \in Range(reports[d]) : r1 = r2

----------------------------------------------------------------------------
(* Properties of the lobby *)

\* C11: while the stored status of the room is not waiting no Player record
\* is created in it, also when the status became playing while a join was
\* in progress.
NoPlayerCreatedUnlessWaiting ==
    [][lobbyStatus # "waiting" => playerRows' = playerRows]_vars

\* C12: no two players of the room share a ghost_color.
NoSharedGhostColor ==
    \A i, j \in DOMAIN playerRows :
        i # j => playerRows[i].ghost_color # playerRows[j].ghost_color

\* C13: the room never holds more than 10 players.
RoomNeverExceedsCap == Len(playerRows) <= MaxRoomPlayers

\* C14: the stored status moves from waiting to playing only while the room
\* holds at least min_players players.
StartOnlyWithMinPlayers ==
    [][lobbyStatus = "waiting" /\ lobbyStatus' = "playing"
          => Len(playerRows) >= minPlayers]_vars
\* the room was started from a lobby that had been short of min_players
StartedWithMinPlayers ==
    /\ lobbyStatus = "playing"
    /\ playerRows[1].owner = "host"
    /\ minPlayers = 3
    /\ Len(playerRows) = 3

----------------------------------------------------------------------------
(* Properties of one minigame component *)

\* C15: when the ranking is built because one player remains, that player
\* has rank 1 and the eliminated players are ranked in reverse elimination
\* order: the last one eliminated has rank 2, the one before it rank 3, ...
LastReport == soloReports[Len(soloReports)]
ShortRosterCompletesAtOnce ==
    (Len(soloPlayers) < 2 /\ soloPhase \in {"returned", "framed", "done"}) =>
        /\ soloEliminated = <<>>
        /\ Len(soloReports) = 1
        /\ Len(soloReports[1]) = Len(soloPlayers)
        /\ \A k \in DOMAIN soloReports[1] :
              /\ soloReports[1][k].player_id = soloPlayers[k]
              /\ soloReports[1][k].rank = 1
              /\ soloReports[1][k].points = 1

----------------------------------------------------------------------------
(* Properties of the elimination list of the session's clients *)

\* C17: no player identity appears more than once in the eliminatedPlayers
\* list of a minigame client.
NoPlayerEliminatedTwice ==
    \A c \in GameClients :
        \A i, j \in DOMAIN eliminatedPlayers[c] :
            i # j => eliminatedPlayers[c][i] # eliminatedPlayers[c][j]

\* C18: whatever the variant, a client whose listener is handed a
\* player-disconnected event for a player that is not in its eliminated list
\* appends that player once, publishes the updated list, and completes the
\* game when one player remains.
DisconnectedPlayerIsEliminated ==
    [][\A d \in GameClients :
          (/\ mounted[d] /\ mounted'[d]
           /\ inbox[d] # <<>> /\ inbox'[d] = Tail(inbox[d])
           /\ Head(inbox[d]).event = "player-disconnected"
           /\ Head(inbox[d]).playerId \notin Range(eliminatedPlayers[d]))
          => /\ eliminatedPlayers'[d] =
                    Append(eliminatedPlayers[d], Head(inbox[d]).playerId)
             /\ \E e \in serverQueue' \ serverQueue :
                    /\ HasKey(e.gameState, "eliminated_players")
                    /\ e.gameState["eliminated_players"] = eliminatedPlayers'[d]
             /\ (Len(Remaining(eliminatedPlayers'[d])) = 1 /\ ~gameCompleted[d])
                    => gameCompleted'[d]]_vars

----------------------------------------------------------------------------
(* Properties of the relay's connections *)

\* C19: when a connection that joined session S as player P drops, the
\* relay emits player-disconnected {playerId: P, gameSessionId: S} to the
\* connections that remain in the group of S and to no other connection.
DropNotifiesSessionGroup ==
    [][\A s \in Sockets :
          (/\ socketState[s] = "connected" /\ socketState'[s] = "disconnected"
           /\ handshake[s].gameSessionId \in rooms[s])
          => \A d \in Sockets :
                received'[d] =
                    IF d # s /\ handshake[s].gameSessionId \in rooms[d]
                    THEN Append(received[d],
                                [event |-> "player-disconnected",
                                 playerId |-> handshake[s].playerId,
                                 gameSessionId |-> handshake[s].gameSessionId])
                    ELSE received[d]]_vars
\* s1 joined session 1 as player 1 and dropped: s2, in the group of session
\* 1, was told so, s3, in the group of session 2, was told nothing
DropSeenBySessionOnly ==
    /\ socketState["s1"] = "disconnected"
    /\ received["s2"] = <<[event |-> "player-disconnected", playerId |-> 1,
                            gameSessionId |-> 1]>>
    /\ rooms["s3"] = {2}
    /\ received["s3"] = <<>>

\* C20: a player-state-update for session S is broadcast as
\* player-state-changed {playerId, position, hasBomb} to every other
\* connection in the group of S, never to its sender and never to a
\* connection that is only in the group of another session.
UpdateReachesOthersInGroup ==
    [][\A data \in updatesInFlight \ updatesInFlight' :
          \A d \in Sockets :
              received'[d] =
                  IF d # data.socket /\ data.gameSessionId \in rooms[d]
                  THEN Append(received[d],
                              [event |-> "player-state-changed",
                               playerId |-> data.playerId,
                               position |-> data.position,
                               hasBomb |-> data.hasBomb])
                  ELSE received[d]]_vars
\* s1 and s2 are in the group of session 1, s3 in that of session 2: the
\* update of s1 reached s2 only
UpdateSeenByGroupOnly ==
    /\ rooms = [s \in Sockets |-> IF s = "s3" THEN {2} ELSE {1}]
    /\ updatesSent = 1 /\ updatesInFlight = {}
    /\ received["s1"] = <<>>
    /\ received["s3"] = <<>>
    /\ received["s2"] = <<[event |-> "player-state-changed", playerId |-> 1,
                            position |-> "xy", hasBomb |-> TRUE]>>

\* C21: the broadcast of an update does not wait for its storage write: every
\* update the relay has received is broadcast, also when its write is slow,
\* fails or never completes.
EveryUpdateIsBroadcast == (updatesInFlight # {}) ~> (updatesInFlight = {})

----------------------------------------------------------------------------
(* Properties of the seeded selection *)

----------------------------------------------------------------------------
(* Further properties of the room / game-session lifecycle *)

\* C23: a session that becomes active is, at that moment, the pending
\* session of the room with the lowest game_number, so the sessions become
\* active in the order 1, 2, ..., max_games.
ActivatedIsLowestPending ==
    [][\A g \in GameNumbers :
          (sessions[g].status # "active" /\ sessions'[g].status = "active")
          => /\ sessions[g].status = "pending"
             /\ \A h \in GameNumbers : h < g => sessions[h].status # "pending"]_vars

\* C24: the room is never finished while fewer than max_games of its
\* sessions are completed.
FinishedOnlyWithAllCompleted ==
    roomStatus = "finished" =>
        Cardinality(SessionsWithStatus("completed")) >= maxGames

\* C25: no step lowers the stored total_score of a player.
TotalScoreNeverDecreases ==
    [][\A p \in Clients : totalScore'[p] >= totalScore[p]]_vars

\* C29: a completed session never becomes active or pending again and its
\* stored results do not change; a session leaves pending only for active
\* and active only for completed.
SessionStatusOnlyAdvances ==
    [][\A g \in GameNumbers :
          /\ sessions[g].status = "completed" => sessions'[g] = sessions[g]
          /\ sessions[g].status = "active"
                => sessions'[g].status \in {"active", "completed"}
          /\ sessions[g].status = "pending"
                => sessions'[g].status \in {"pending", "active"}]_vars

\* the step hands client c a ranking it took from a received completion
\* message instead of computing it
AdoptsRanking(c) ==
    /\ inbox[c] # <<>>
    /\ inbox'[c] = Tail(inbox[c])
    /\ Head(inbox[c]).event = "game-state-changed"
    /\ HasKey(Head(inbox[c]).gameState, "game_completed")

\* C26: in every completion path (local elimination, received elimination
\* list, observed disconnect) the client that computes the final ranking and
\* passes it to onGameComplete publishes, in the same handler, a game state
\* carrying game_completed and that ranking.
ComputedRankingIsPublished ==
    [][\A c \in GameClients :
          (gameType # "boulder_run" /\ reports'[c] # reports[c] /\ ~AdoptsRanking(c))
             => \E e \in serverQueue' \ serverQueue :
                   /\ HasKey(e.gameState, "game_completed")
                   /\ HasKey(e.gameState, "results")
                   /\ e.gameState["results"] = reports'[c][Len(reports'[c])]]_vars

\* C27: each client calls onGameComplete at most once per game session, and
\* once it has, its simulation loop runs no further tick: a step that is not
\* a socket delivery (the inboxes are untouched) detects no further
\* elimination on that client.
LoopStopsAtCompletion ==
    [][\A c \in GameClients :
          reports[c] # <<>>
             => /\ reports'[c] = reports[c]
                /\ inbox' = inbox => eliminatedPlayers'[c] = eliminatedPlayers[c]]_vars

\* every game-state-update emitted so far has reached every client's handler
BombQuiet == bombQueue = {} /\ \A c \in BombClients : bombInbox[c] = <<>>

\* C28: all TagBomb clients of a session agree on the bomb holder: they hold
\* the same holder at game start, and once the events of an elimination that
\* leaves more than one player have reached everybody, every client holds
\* the same new holder, one of the remaining players.
HoldersAgreeAfterElimination ==
    /\ bombPublished = 0 =>
           \A c, d \in BombClients : bombHolder[c] = bombHolder[d]
    /\ BombQuiet =>
           \A c \in BombClients :
              (bombEliminated[c] # <<>> /\ Len(bombRemaining(bombEliminated[c])) > 1)
                 => /\ bombHolder[c] \in Range(bombRemaining(bombEliminated[c]))
                    /\ \A d \in BombClients : bombHolder[d] = bombHolder[c]

\* C30: activateDash starts a dash only if dashCooldown is 0 and the ghost is
\* not dashing; called while dashing or while dashCooldown > 0 it leaves
\* isDashing, dashCooldown and the pending dash timer unchanged; and a ghost
\* starts dashing in no other way.
DashOnlyWhenReady ==
    [][/\ dashCalls' # dashCalls =>
             IF dashCooldown = 0 /\ ~isDashing
             THEN isDashing' /\ dashTimers' # dashTimers
             ELSE UNCHANGED <<isDashing, dashCooldown, dashTimeout, dashTimers>>
       /\ (isDashing' /\ ~isDashing) => (dashCalls' # dashCalls /\ dashCooldown = 0)]_vars

\* activateDash has been called both while the ghost was dashing or cooling
\* down (a call that started no timer) and while it was ready
DashRefusedWhileBusy ==
    /\ dashTimeout >= 1
    /\ dashCalls > dashTimeout
    /\ dashCooldown > 0

\* C31: a dashing ghost leaves dashing by itself, with dashCooldown =
\* dashCooldownTime; a cooldown only goes down by a frame time, never below
\* 0; with ticks continuing (the game is not torn down) a ghost that is not
\* dashing eventually is dash-ready again; dashCooldown stays within
\* [0, dashCooldownTime].
DashCooldownCycle ==
    /\ [](dashCooldown \in 0..dashCooldownTime)
    /\ [][/\ (isDashing /\ ~isDashing') => dashCooldown' = dashCooldownTime
          /\ dashCooldown' < dashCooldown =>
                \E deltaTime \in DeltaTimes :
                   dashCooldown' = IF dashCooldown > deltaTime
                                   THEN dashCooldown - deltaTime ELSE 0]_vars
    /\ isDashing ~> (~isDashing \/ dashCleaned)
    /\ (~isDashing) ~> ((~isDashing /\ dashCooldown = 0) \/ dashCleaned)

\* the ghost has dashed, cooled down and is dash-ready again
DashReadyAgain ==
    /\ dashTimeout >= 1 /\ dashTimers = {}
    /\ ~isDashing /\ dashCooldown = 0

\* C32: after the teardown has called Ghost.cleanup no dash timer is left,
\* and no step changes the ghost's isDashing or dashCooldown.
NoDashTimerAfterCleanup ==
    [][dashCleaned =>
          /\ dashTimers = {}
          /\ isDashing' = isDashing
          /\ dashCooldown' = dashCooldown]_vars

\* the teardown came in the middle of a dash, whose timer was pending
CleanedUpWhileDashing == dashCleaned /\ isDashing

\* C33: handleStartGame called by a client whose player is not the first
\* player of the room by join order leaves the room's status and every
\* session's status as they were.
StartIsHostOnly ==
    (hostOutput # <<>> /\ hostInput.me # hostInput.rows[1])
       => /\ hostOutput.status = hostInput.status
          /\ hostOutput.sessions = hostInput.sessions

\* the second player of a waiting room with a pending session, who has polled
\* both players, has called handleStartGame
GuestPressedStart ==
    /\ hostOutput # <<>>
    /\ hostInput.rows = <<1, 2>> /\ hostInput.polled = 2 /\ hostInput.me = 2
    /\ hostInput.status = "waiting"
    /\ hostInput.sessions[1] = "pending"

\* C34: once the room is playing with an active session, every client that
\* is in the lobby eventually enters the playing state, whatever fetches of
\* its polls have failed.
LobbyClientsEventuallyPlay ==
    (pollRoom = "playing" /\ pollSession = "active")
       ~> (\A c \in PollClients : pollState[c] = "playing")

\* C35: once a client has left the scoreboard state, the games poll
\* subscribed for that state changes neither its current game nor its app
\* state: a step that is no step of a handler or of the lobby poll (hpc and
\* ppc stay) leaves both alone on every client that is not on the scoreboard.
GamesPollStopsWithScoreboard ==
    [][\A c \in Clients :
          (appState[c] # "scoreboard" /\ hpc' = hpc /\ ppc' = ppc)
             => /\ appState'[c] = appState[c]
                /\ currentGame'[c] = currentGame[c]]_vars

\* C36: whenever no disconnect handler is in progress, playerToSocket maps
\* player p to socket s exactly when s is a connected socket whose
\* socketToPlayer entry names p, and a disconnected socket appears in
\* neither map.
RegistryConsistent ==
    closing = {} =>
       /\ \A p \in HubPlayers, s \in Sockets :
             (p \in DOMAIN playerToSocket /\ playerToSocket[p] = s)
                <=> /\ socketState[s] = "connected"
                    /\ s \in DOMAIN socketToPlayer
                    /\ socketToPlayer[s].playerId = p
       /\ \A s \in Sockets :
             socketState[s] = "disconnected" =>
                /\ s \notin DOMAIN socketToPlayer
                /\ \A p \in DOMAIN playerToSocket : playerToSocket[p] # s

\* C37: a minigame client is never in a state where every player of the
\* roster is in its elimination list and it has passed no final ranking to
\* onGameComplete.
AllEliminatedOnlyWithRanking ==
    \A c \in GameClients :
       GamePlayers \subseteq Range(eliminatedPlayers[c]) => reports[c] # <<>>

\* C38: on every TagBomb client at most one ghost has hasBomb = true, that
\* ghost is the one named by bombHolderId, and bombHolderId names no player
\* of the elimination list.
OneBombOnItsHolder ==
    \A c \in BombClients :
       /\ Cardinality(withBomb[c]) <= 1
       /\ withBomb[c] \subseteq {bombHolder[c]}
       /\ bombHolder[c] \notin Range(bombEliminated[c])

\* C39: the clients of the room that are in the playing state at the same
\* time have the same current game session.
PlayingClientsShareSession ==
    \A c, d \in Clients :
       (appState[c] = "playing" /\ appState[d] = "playing")
          => currentGame[c] = currentGame[d]

\* the points the ranking gives to player p
RankedPoints(results, p) ==
    LET i == CHOOSE j \in 1..Len(results) : results[j].player_id = p
    IN results[i].points

\* C40: completeGame returns true or false (it never throws); if the update
\* of the session fails it returns false and every total_score and the
\* session are as before; otherwise it returns true, and every ranked player
\* whose own requests did not fail has its points added, whatever failed for
\* the others.
CompleteGameFailsCleanly ==
    scoreOutput # <<>> =>
       /\ scoreOutput.returned \in BOOLEAN
       /\ scoreInput.sessionFails =>
             /\ scoreOutput.returned = FALSE
             /\ scoreOutput.scores = scoreInput.scores
             /\ scoreOutput.status = scoreInput.status
       /\ ~scoreInput.sessionFails =>
             /\ scoreOutput.returned = TRUE
             /\ scoreOutput.status = "completed"
             /\ \A p \in ScorePlayers :
                   scoreOutput.scores[p] =
                      IF p \in scoreInput.readFails \cup scoreInput.writeFails
                      THEN scoreInput.scores[p]
                      ELSE scoreInput.scores[p] + RankedPoints(scoreInput.results, p)

\* completeGame has returned after the score update of player 1 alone failed
OneScoreUpdateFailed ==
    /\ scoreOutput # <<>>
    /\ ~scoreInput.sessionFails
    /\ scoreInput.readFails = {} /\ scoreInput.writeFails = {1}
    /\ scoreOutput.scores[2] > scoreInput.scores[2]


====
